---------------------------- MODULE Spec2Model ----------------------------
(***************************************************************************)
(* A model of the relsat finite-model search engine (src/solver.rs and the *)
(* bit operations, packed buffers and shapes it is built on).              *)
(*                                                                         *)
(* The solver is a state machine: the public operations of Solver          *)
(* (add_domain, add_variable, add_clause, add_exist, set_value,            *)
(* set_equality) are actions, and search_all is stepped one propagation    *)
(* and one dispatch at a time.  A failed Rust assertion (a panic) is a     *)
(* terminal state that records which assertion failed.                     *)
(***************************************************************************)
EXTENDS Integers, Sequences, FiniteSets, TLC

(***************************************************************************)
(* Bounds of the model.                                                    *)
(***************************************************************************)
\* the largest domain size add_domain is called with
MaxSize == 2
\* the largest length the assignment buffer may reach
MaxCells == 4
\* the largest number of inputs of a theory: forced cells, exists axioms and
\* literals (an empty clause counts as one)
MaxInputs == 2

\* the largest length of a buffer built for the buffer operations
MaxLen == 66
\* the numbers of axes of a variable, the variable indices of a clause and
\* the numbers of literals of a clause that the operations are called with
Arities == {1, 2}
ClauseVarIds == {0, 1}
ClauseLens == {0, 1, 2}
\* the declarations (domains and variables together) a theory is built from
Declarations == {1, 2, 3}

(***************************************************************************)
(* Generic helpers: Rust slices are indexed from 0.                        *)
(***************************************************************************)
At(s, i) == s[i + 1]

Range0(n) == 0 .. (n - 1)

RECURSIVE Product(_)
Product(s) == IF s = <<>> THEN 1 ELSE Head(s) * Product(Tail(s))

Min(a, b) == IF a < b THEN a ELSE b

\* A function constructor is evaluated lazily.  Tuple makes the sequence
\* value of a function with domain 1 .. n, and Table the function value of
\* any function, so that every later update and slice acts on plain values.
Tuple(f) == SubSeq(f, 1, Len(f))

Table(f) == f @@ <<>>

(***************************************************************************)
(* bitops.rs: the 2-bit values and the operator tables.                    *)
(***************************************************************************)
Bit2 == 0 .. 3

BOOL_FALSE == 0
BOOL_UNDEF == 1
BOOL_TRUE == 2
BOOL_MISSING == 3

EVAL_FALSE == 0
EVAL_UNIT == 1
EVAL_UNDEF == 2
EVAL_TRUE == 3

\* bitwise or of two 2-bit values
BitOr2(x, y) ==
    (IF x % 2 = 1 \/ y % 2 = 1 THEN 1 ELSE 0)
    + (IF x \div 2 = 1 \/ y \div 2 = 1 THEN 2 ELSE 0)

RECURSIVE OrCases(_, _, _)
OrCases(cases, a, b) ==
    IF cases = <<>> THEN 0
    ELSE LET c == Head(cases)
             rest == OrCases(Tail(cases), a, b)
         IN  IF c[1] = a /\ c[2] = b THEN BitOr2(c[3], rest) ELSE rest

\* Op222::new: every case is or-ed into its 2-bit slot of the word; the
\* word is kept as its sixteen 2-bit slots, slot (a, b) at bit a*8 + b*2.
Op222New(cases) == Table([a \in Bit2 |-> Table([b \in Bit2 |-> OrCases(cases, a, b)])])

\* Op222::of: (word >> ((a << 3) | (b << 1))) & 3
Op222Of(op, a, b) == op[a][b]

RECURSIVE OrCases1(_, _)
OrCases1(cases, a) ==
    IF cases = <<>> THEN 0
    ELSE LET c == Head(cases)
             rest == OrCases1(Tail(cases), a)
         IN  IF c[1] = a THEN BitOr2(c[2], rest) ELSE rest

Op22New(cases) == Table([a \in Bit2 |-> OrCases1(cases, a)])

Op22Of(op, a) == op[a]

BOOL_NOT == Op22New(<<
    <<BOOL_FALSE, BOOL_TRUE>>,
    <<BOOL_UNDEF, BOOL_UNDEF>>,
    <<BOOL_TRUE, BOOL_FALSE>>,
    <<BOOL_MISSING, BOOL_MISSING>> >>)

\* BOOL_OR answering with its first argument unless that is FALSE or MISSING
BOOL_OR_first ==
    Table([a \in Bit2 |-> Table([b \in Bit2 |->
        IF a \in {BOOL_FALSE, BOOL_MISSING} THEN b ELSE a])])

BOOL_OR == Op222New(<<
    <<BOOL_FALSE, BOOL_FALSE, BOOL_FALSE>>,
    <<BOOL_FALSE, BOOL_UNDEF, BOOL_UNDEF>>,
    <<BOOL_FALSE, BOOL_TRUE, BOOL_TRUE>>,
    <<BOOL_FALSE, BOOL_MISSING, BOOL_FALSE>>,
    <<BOOL_UNDEF, BOOL_FALSE, BOOL_UNDEF>>,
    <<BOOL_UNDEF, BOOL_UNDEF, BOOL_UNDEF>>,
    <<BOOL_UNDEF, BOOL_TRUE, BOOL_TRUE>>,
    <<BOOL_UNDEF, BOOL_MISSING, BOOL_UNDEF>>,
    <<BOOL_TRUE, BOOL_FALSE, BOOL_TRUE>>,
    <<BOOL_TRUE, BOOL_UNDEF, BOOL_TRUE>>,
    <<BOOL_TRUE, BOOL_TRUE, BOOL_TRUE>>,
    <<BOOL_TRUE, BOOL_MISSING, BOOL_TRUE>>,
    <<BOOL_MISSING, BOOL_FALSE, BOOL_FALSE>>,
    <<BOOL_MISSING, BOOL_UNDEF, BOOL_UNDEF>>,
    <<BOOL_MISSING, BOOL_TRUE, BOOL_TRUE>>,
    <<BOOL_MISSING, BOOL_MISSING, BOOL_MISSING>> >>)

\* BOOL_AND with the case (UNDEF, UNDEF) answering FALSE
BOOL_AND_undef ==
    Table([a \in Bit2 |-> Table([b \in Bit2 |->
        IF a = BOOL_MISSING THEN b
        ELSE IF b = BOOL_MISSING THEN a
        ELSE IF a = BOOL_UNDEF /\ b = BOOL_UNDEF THEN BOOL_FALSE
        ELSE Min(a, b)])])

BOOL_AND == Op222New(<<
    <<BOOL_FALSE, BOOL_FALSE, BOOL_FALSE>>,
    <<BOOL_FALSE, BOOL_UNDEF, BOOL_FALSE>>,
    <<BOOL_FALSE, BOOL_TRUE, BOOL_FALSE>>,
    <<BOOL_FALSE, BOOL_MISSING, BOOL_FALSE>>,
    <<BOOL_UNDEF, BOOL_FALSE, BOOL_FALSE>>,
    <<BOOL_UNDEF, BOOL_UNDEF, BOOL_UNDEF>>,
    <<BOOL_UNDEF, BOOL_TRUE, BOOL_UNDEF>>,
    <<BOOL_UNDEF, BOOL_MISSING, BOOL_UNDEF>>,
    <<BOOL_TRUE, BOOL_FALSE, BOOL_FALSE>>,
    <<BOOL_TRUE, BOOL_UNDEF, BOOL_UNDEF>>,
    <<BOOL_TRUE, BOOL_TRUE, BOOL_TRUE>>,
    <<BOOL_TRUE, BOOL_MISSING, BOOL_TRUE>>,
    <<BOOL_MISSING, BOOL_FALSE, BOOL_FALSE>>,
    <<BOOL_MISSING, BOOL_UNDEF, BOOL_UNDEF>>,
    <<BOOL_MISSING, BOOL_TRUE, BOOL_TRUE>>,
    <<BOOL_MISSING, BOOL_MISSING, BOOL_MISSING>> >>)

\* variant of FOLD_POS that does not count the undefined literals: an
\* undefined literal makes a cell that is not TRUE a UNIT cell
FOLD_POS_uncounted ==
    Table([a \in Bit2 |->
              Table([b \in Bit2 |->
                        IF b = BOOL_TRUE THEN EVAL_TRUE
                        ELSE IF b = BOOL_UNDEF /\ a # EVAL_TRUE THEN EVAL_UNIT
                        ELSE a])])

FOLD_POS == Op222New(<<
    <<EVAL_FALSE, BOOL_FALSE, EVAL_FALSE>>,
    <<EVAL_FALSE, BOOL_UNDEF, EVAL_UNIT>>,
    <<EVAL_FALSE, BOOL_TRUE, EVAL_TRUE>>,
    <<EVAL_FALSE, BOOL_MISSING, EVAL_FALSE>>,
    <<EVAL_UNIT, BOOL_FALSE, EVAL_UNIT>>,
    <<EVAL_UNIT, BOOL_UNDEF, EVAL_UNDEF>>,
    <<EVAL_UNIT, BOOL_TRUE, EVAL_TRUE>>,
    <<EVAL_UNIT, BOOL_MISSING, EVAL_UNIT>>,
    <<EVAL_UNDEF, BOOL_FALSE, EVAL_UNDEF>>,
    <<EVAL_UNDEF, BOOL_UNDEF, EVAL_UNDEF>>,
    <<EVAL_UNDEF, BOOL_TRUE, EVAL_TRUE>>,
    <<EVAL_UNDEF, BOOL_MISSING, EVAL_UNDEF>>,
    <<EVAL_TRUE, BOOL_FALSE, EVAL_TRUE>>,
    <<EVAL_TRUE, BOOL_UNDEF, EVAL_TRUE>>,
    <<EVAL_TRUE, BOOL_TRUE, EVAL_TRUE>>,
    <<EVAL_TRUE, BOOL_MISSING, EVAL_TRUE>> >>)

\* variant of FOLD_NEG that folds a negative literal like a positive one
FOLD_NEG_unsigned == FOLD_POS

FOLD_NEG == Op222New(<<
    <<EVAL_FALSE, BOOL_FALSE, EVAL_TRUE>>,
    <<EVAL_FALSE, BOOL_UNDEF, EVAL_UNIT>>,
    <<EVAL_FALSE, BOOL_TRUE, EVAL_FALSE>>,
    <<EVAL_FALSE, BOOL_MISSING, EVAL_FALSE>>,
    <<EVAL_UNIT, BOOL_FALSE, EVAL_TRUE>>,
    <<EVAL_UNIT, BOOL_UNDEF, EVAL_UNDEF>>,
    <<EVAL_UNIT, BOOL_TRUE, EVAL_UNIT>>,
    <<EVAL_UNIT, BOOL_MISSING, EVAL_UNIT>>,
    <<EVAL_UNDEF, BOOL_FALSE, EVAL_TRUE>>,
    <<EVAL_UNDEF, BOOL_UNDEF, EVAL_UNDEF>>,
    <<EVAL_UNDEF, BOOL_TRUE, EVAL_UNDEF>>,
    <<EVAL_UNDEF, BOOL_MISSING, EVAL_UNDEF>>,
    <<EVAL_TRUE, BOOL_FALSE, EVAL_TRUE>>,
    <<EVAL_TRUE, BOOL_UNDEF, EVAL_TRUE>>,
    <<EVAL_TRUE, BOOL_TRUE, EVAL_TRUE>>,
    <<EVAL_TRUE, BOOL_MISSING, EVAL_TRUE>> >>)

EVAL_AND == Op222New(<<
    <<EVAL_FALSE, EVAL_FALSE, EVAL_FALSE>>,
    <<EVAL_FALSE, EVAL_UNIT, EVAL_FALSE>>,
    <<EVAL_FALSE, EVAL_UNDEF, EVAL_FALSE>>,
    <<EVAL_FALSE, EVAL_TRUE, EVAL_FALSE>>,
    <<EVAL_UNIT, EVAL_FALSE, EVAL_FALSE>>,
    <<EVAL_UNIT, EVAL_UNIT, EVAL_UNIT>>,
    <<EVAL_UNIT, EVAL_UNDEF, EVAL_UNIT>>,
    <<EVAL_UNIT, EVAL_TRUE, EVAL_UNIT>>,
    <<EVAL_UNDEF, EVAL_FALSE, EVAL_FALSE>>,
    <<EVAL_UNDEF, EVAL_UNIT, EVAL_UNIT>>,
    <<EVAL_UNDEF, EVAL_UNDEF, EVAL_UNDEF>>,
    <<EVAL_UNDEF, EVAL_TRUE, EVAL_UNDEF>>,
    <<EVAL_TRUE, EVAL_FALSE, EVAL_FALSE>>,
    <<EVAL_TRUE, EVAL_UNIT, EVAL_UNIT>>,
    <<EVAL_TRUE, EVAL_UNDEF, EVAL_UNDEF>>,
    <<EVAL_TRUE, EVAL_TRUE, EVAL_TRUE>> >>)

(***************************************************************************)
(* buffer.rs: Buffer2, a vector of 2-bit cells packed sixteen to a u32.    *)
(* A word is kept as its sixteen 2-bit lanes, lane k being bits 2k, 2k+1,  *)
(* so that the masks of the code are sets of lanes.                        *)
(***************************************************************************)
\* cells per u32 word of a Buffer2
WordCells2 == 16

Lanes2 == Range0(WordCells2)

\* Buffer2::FILL[val]: the word whose every lane is val
Buffer2_FILL(val) == Table([k \in Lanes2 |-> val])

\* (len + 15) / 16
Buffer2_words(len) == (len + (WordCells2 - 1)) \div WordCells2

Buffer2_default == [data |-> <<>>, len |-> 0]

Buffer2_new(len, val) ==
    [data |-> Tuple([w \in 1 .. Buffer2_words(len) |-> Buffer2_FILL(val)]), len |-> len]

\* (old & mask) | (fill & !mask) with mask = (1 << (2 * n)) - 1:
\* the low n lanes of old, the other lanes of fill
MergeLow(old, fill, n) == Table([k \in Lanes2 |-> IF k < n THEN old[k] ELSE fill[k]])

\* Vec::resize(n, fill)
Resize(data, n, fill) ==
    Tuple([w \in 1 .. n |-> IF w <= Len(data) THEN data[w] ELSE fill])

\* variant of Buffer2::append that fills every word, the old cells included
Buffer2_append_refill(buf, len, val) ==
    [data |-> Tuple([w \in 1 .. Buffer2_words(buf.len + len) |-> Buffer2_FILL(val)]),
     len |-> buf.len + len]

Buffer2_append(buf, len, val) ==
    LET fill == Buffer2_FILL(val)
        data1 == IF buf.len % WordCells2 # 0
                 THEN [buf.data EXCEPT ![Len(buf.data)] =
                          MergeLow(@, fill, buf.len % WordCells2)]
                 ELSE buf.data
        newlen == buf.len + len
    IN  [data |-> Resize(data1, Buffer2_words(newlen), fill), len |-> newlen]

Buffer2_len(buf) == buf.len

Buffer2_get(buf, pos) == buf.data[(pos \div WordCells2) + 1][pos % WordCells2]

Buffer2_set(buf, pos, val) ==
    [buf EXCEPT !.data[(pos \div WordCells2) + 1][pos % WordCells2] = val]

Buffer2_fill(buf, val) ==
    [buf EXCEPT !.data = Tuple([w \in 1 .. Len(buf.data) |-> Buffer2_FILL(val)])]

\* the cells of a buffer as a sequence (for stating properties)
Cells(buf) == Tuple([i \in 1 .. buf.len |-> Buffer2_get(buf, i - 1)])

\* (1 << n) - 1 as a set of lanes: the lanes below n
LowMask(lanes, n) == {k \in lanes : k < n}

\* (temp & !mask) | (fill & mask): the lanes of mask from fill, the others
\* from temp
MaskMerge(temp, fill, mask) ==
    Table([k \in DOMAIN temp |-> IF k \in mask THEN fill[k] ELSE temp[k]])

\* variant of Buffer2::fill_range that fills every word the range touches
Buffer2_fill_range_words(buf, start, end, val) ==
    [buf EXCEPT !.data =
        Tuple([w \in 1 .. Len(buf.data) |->
                  IF start < end /\ w - 1 >= start \div WordCells2
                                 /\ w - 1 <= (end - 1) \div WordCells2
                  THEN Buffer2_FILL(val)
                  ELSE buf.data[w]])]

\* Buffer2::fill_range(start..end, val), start <= end <= len
Buffer2_fill_range(buf, start, end, val) ==
    LET fill == Buffer2_FILL(val)
        first == start \div WordCells2
        last == end \div WordCells2
    IN  IF start >= end THEN buf
        ELSE IF first = last
        THEN [buf EXCEPT !.data[first + 1] =
                  MaskMerge(@, fill,
                            (LowMask(Lanes2, start % WordCells2)
                                 \ LowMask(Lanes2, end % WordCells2))
                            \cup (LowMask(Lanes2, end % WordCells2)
                                      \ LowMask(Lanes2, start % WordCells2)))]
        ELSE [buf EXCEPT !.data =
                  Tuple([w \in 1 .. Len(buf.data) |->
                            IF w = first + 1
                            THEN MaskMerge(buf.data[w], fill,
                                           Lanes2 \ LowMask(Lanes2, start % WordCells2))
                            ELSE IF w > first + 1 /\ w < last + 1 THEN fill
                            ELSE IF w = last + 1 /\ end % WordCells2 # 0
                            THEN MaskMerge(buf.data[w], fill,
                                           LowMask(Lanes2, end % WordCells2))
                            ELSE buf.data[w]])]

(***************************************************************************)
(* buffer.rs: Buffer1, a vector of bits packed thirty-two to a u32.  A     *)
(* word is kept as its thirty-two lanes, lane k being bit k.               *)
(***************************************************************************)
\* cells per u32 word of a Buffer1
WordCells1 == 32

Lanes1 == Range0(WordCells1)

\* Buffer1::FILL[val]
Buffer1_FILL(val) == Table([k \in Lanes1 |-> val])

\* (len + 31) / 32
Buffer1_words(len) == (len + (WordCells1 - 1)) \div WordCells1

Buffer1_new(len, val) ==
    [data |-> Tuple([w \in 1 .. Buffer1_words(len) |-> Buffer1_FILL(val)]), len |-> len]

\* variant of Buffer1::append that only resizes the vector of words
Buffer1_append_resize(buf, len, val) ==
    [data |-> Resize(buf.data, Buffer1_words(buf.len + len), Buffer1_FILL(val)),
     len |-> buf.len + len]

Buffer1_append(buf, len, val) ==
    LET fill == Buffer1_FILL(val)
        data1 == IF buf.len % WordCells1 # 0
                 THEN [buf.data EXCEPT ![Len(buf.data)] =
                          MaskMerge(@, fill,
                                    Lanes1 \ LowMask(Lanes1, buf.len % WordCells1))]
                 ELSE buf.data
        newlen == buf.len + len
    IN  [data |-> Resize(data1, Buffer1_words(newlen), fill), len |-> newlen]

Buffer1_len(buf) == buf.len

Buffer1_get(buf, pos) == buf.data[(pos \div WordCells1) + 1][pos % WordCells1]

\* data &= !(1 << (pos % 32)); data |= val << (pos % 32)
Buffer1_set(buf, pos, val) ==
    [buf EXCEPT !.data[(pos \div WordCells1) + 1][pos % WordCells1] = val]

\* Buffer1::fill_range(start..end, val), start <= end <= len
Buffer1_fill_range(buf, start, end, val) ==
    LET fill == Buffer1_FILL(val)
        first == start \div WordCells1
        last == end \div WordCells1
    IN  IF start >= end THEN buf
        ELSE IF first = last
        THEN [buf EXCEPT !.data[first + 1] =
                  MaskMerge(@, fill,
                            (LowMask(Lanes1, start % WordCells1)
                                 \ LowMask(Lanes1, end % WordCells1))
                            \cup (LowMask(Lanes1, end % WordCells1)
                                      \ LowMask(Lanes1, start % WordCells1)))]
        ELSE [buf EXCEPT !.data =
                  Tuple([w \in 1 .. Len(buf.data) |->
                            IF w = first + 1
                            THEN MaskMerge(buf.data[w], fill,
                                           Lanes1 \ LowMask(Lanes1, start % WordCells1))
                            ELSE IF w > first + 1 /\ w < last + 1 THEN fill
                            ELSE IF w = last + 1 /\ end % WordCells1 # 0
                            THEN MaskMerge(buf.data[w], fill,
                                           LowMask(Lanes1, end % WordCells1))
                            ELSE buf.data[w]])]

(***************************************************************************)
(* shape.rs: Shape, ShapeView and ShapeIter.                               *)
(***************************************************************************)
Shape_new(lengths, offset) ==
    [lengths |-> lengths, offset |-> offset, volume |-> Product(lengths)]

Shape_dimension(shape) == Len(shape.lengths)

Shape_length(shape, axis) == At(shape.lengths, axis)

Shape_volume(shape) == shape.volume

RECURSIVE PositionFold(_, _, _)
PositionFold(coordinates, lengths, n) ==
    IF coordinates = <<>> \/ lengths = <<>> THEN n
    ELSE PositionFold(Tail(coordinates), Tail(lengths),
                      n * Head(lengths) + Head(coordinates))

\* Shape::position: n = n * d + c over the zipped coordinates and lengths
Shape_position(shape, coordinates) ==
    shape.offset + PositionFold(coordinates, shape.lengths, 0)

RECURSIVE CoordinatesFold(_, _, _, _)
CoordinatesFold(lengths, i, position, coordinates) ==
    IF i = 0 THEN coordinates
    ELSE CoordinatesFold(lengths, i - 1, position \div lengths[i],
                         [coordinates EXCEPT ![i] = position % lengths[i]])

\* Shape::coordinates: decode from the last axis to the first
Shape_coordinates(shape, position) ==
    CoordinatesFold(shape.lengths, Len(shape.lengths), position - shape.offset,
                    Tuple([i \in 1 .. Len(shape.lengths) |-> 0]))

\* Shape::positions: the range offset .. offset + volume
Shape_positions(shape) ==
    [start |-> shape.offset, end |-> shape.offset + shape.volume]

RECURSIVE CanonicalStrides(_, _, _)
CanonicalStrides(strides, i, s) ==
    IF i = 0 THEN strides
    ELSE CanonicalStrides([strides EXCEPT ![i] = <<@[1], s>>], i - 1,
                          s * strides[i][1])

\* ShapeView::new: (length, stride) pairs, the last axis with stride 1
ShapeView_new(shape) ==
    [strides |-> CanonicalStrides(Tuple([i \in 1 .. Len(shape.lengths) |->
                                             <<shape.lengths[i], 0>>]),
                                  Len(shape.lengths), 1),
     offset |-> shape.offset]

RECURSIVE PolymerFold(_, _, _, _)
PolymerFold(old, map, i, strides) ==
    IF i > Len(map) THEN strides
    ELSE PolymerFold(old, map, i + 1,
                     [strides EXCEPT ![map[i] + 1] = <<@[1], @[2] + old[i][2]>>])

\* the assertions of ShapeView::polymer and of Shape::polymer of solver3:
\* the map has one entry per axis, every target is an axis of the new
\* lengths, and the two ends of every arrow have the same length
Polymer_ok(strides, lengths, map) ==
    /\ Len(map) = Len(strides)
    /\ \A i \in 1 .. Len(map) :
           /\ map[i] < Len(lengths)
           /\ strides[i][1] = At(lengths, map[i])

\* variant of ShapeView::polymer that assigns where the code adds: an axis
\* gets the stride of the last old axis mapped to it
ShapeView_polymer_assign(view, shape, map) ==
    LET Last(j) == CHOOSE i \in 1 .. Len(map) :
                       map[i] = j /\ \A k \in (i + 1) .. Len(map) : map[k] # j
    IN  [strides |-> Tuple([j \in 1 .. Len(shape.lengths) |->
                         <<shape.lengths[j],
                           IF \E i \in 1 .. Len(map) : map[i] = j - 1
                           THEN view.strides[Last(j - 1)][2] ELSE 0>>]),
         offset |-> view.offset]

\* ShapeView::polymer: the lengths of shape, the strides summed by map
ShapeView_polymer(view, shape, map) ==
    [strides |-> PolymerFold(view.strides, map, 1,
                             Tuple([i \in 1 .. Len(shape.lengths) |->
                                        <<shape.lengths[i], 0>>])),
     offset |-> view.offset]

\* the loop of ShapeView::permute: strides[x] = self.strides[i] for every
\* (i, x) of map; a target out of range or one written before (no longer
\* (0, 0)) stops it with a panic
RECURSIVE PermuteFold(_, _, _, _)
PermuteFold(old, map, i, strides) ==
    IF i > Len(map) THEN [ok |-> TRUE, strides |-> strides]
    ELSE IF map[i] >= Len(strides) \/ At(strides, map[i]) # <<0, 0>>
         THEN [ok |-> FALSE, strides |-> strides]
         ELSE PermuteFold(old, map, i + 1, [strides EXCEPT ![map[i] + 1] = old[i]])

\* variant of ShapeView::permute that reads the map backwards: the new axis
\* i is the old axis map[i]
ShapeView_permute_inverse(view, map) ==
    [ok |-> Len(map) = Len(view.strides),
     view |-> [strides |-> Tuple([i \in 1 .. Len(view.strides) |->
                                     At(view.strides, map[i])]),
               offset |-> view.offset]]

\* ShapeView::permute: ok is false when an assertion fails
ShapeView_permute(view, map) ==
    LET Result(r) ==
            [ok |-> r.ok,
             view |-> [strides |-> r.strides, offset |-> view.offset]]
    IN  IF Len(map) # Len(view.strides) THEN [ok |-> FALSE, view |-> view]
        ELSE Result(PermuteFold(view.strides, map, 1,
                                Tuple([i \in 1 .. Len(view.strides) |-> <<0, 0>>])))

\* the while loop of ShapeView::simplify; tail and head are 0-based
RECURSIVE SimplifyLoop(_, _, _)
SimplifyLoop(strides, tail, head) ==
    IF head >= Len(strides) THEN [strides |-> strides, tail |-> tail]
    ELSE IF At(strides, head)[1] = 0
         THEN [strides |-> [strides EXCEPT ![1] = <<0, 0>>], tail |-> 0]
         ELSE LET s == At(strides, head)[1] * At(strides, head)[2]
              IN  IF s = At(strides, tail)[2]
                  THEN SimplifyLoop(
                          [strides EXCEPT ![tail + 1] =
                              <<@[1] * At(strides, head)[1], At(strides, head)[2]>>],
                          tail, head + 1)
                  ELSE SimplifyLoop(
                          [strides EXCEPT ![tail + 2] = At(strides, head)],
                          tail + 1, head + 1)

\* variant of ShapeView::simplify that keeps the first axis only
ShapeView_simplify_first(view) ==
    [strides |-> SubSeq(SimplifyLoop(view.strides, 0, 1).strides, 1,
                        Min(1, Len(view.strides))),
     offset |-> view.offset]

\* ShapeView::simplify: merge axes, then truncate to tail + 1 entries
ShapeView_simplify(view) ==
    LET r == SimplifyLoop(view.strides, 0, 1)
    IN  [strides |-> SubSeq(r.strides, 1, Min(r.tail + 1, Len(r.strides))),
         offset |-> view.offset]

\* ShapeIter::new: entries (coord, dim, stride) in reversed axis order
ShapeIter_new(view) ==
    LET n == Len(view.strides)
    IN  [index |-> view.offset,
         entries |-> Tuple([i \in 1 .. n |->
                         <<0, view.strides[n + 1 - i][1], view.strides[n + 1 - i][2]>>]),
         done |-> \E i \in 1 .. n : view.strides[i][1] = 0]

ShapeView_positions(view) == ShapeIter_new(view)

RECURSIVE ResetIndex(_, _, _)
ResetIndex(entries, i, index) ==
    IF i > Len(entries) THEN index
    ELSE ResetIndex(entries, i + 1, index - entries[i][1] * entries[i][3])

\* variant of ShapeIter::reset that zeroes the coordinates and leaves the
\* index where the iteration stood
ShapeIter_reset_coords(it) ==
    [index |-> it.index,
     entries |-> Tuple([i \in 1 .. Len(it.entries) |->
                           <<0, it.entries[i][2], it.entries[i][3]>>]),
     done |-> \E i \in 1 .. Len(it.entries) : it.entries[i][2] = 0]

\* ShapeIter::reset
ShapeIter_reset(it) ==
    [index |-> ResetIndex(it.entries, 1, it.index),
     entries |-> Tuple([i \in 1 .. Len(it.entries) |->
                           <<0, it.entries[i][2], it.entries[i][3]>>]),
     done |-> \E i \in 1 .. Len(it.entries) : it.entries[i][2] = 0]

\* the for loop of ShapeIter::next over the entries from entry i on
RECURSIVE NextLoop(_, _, _)
NextLoop(entries, i, index) ==
    IF i > Len(entries)
    THEN [entries |-> entries, index |-> index, done |-> TRUE]
    ELSE LET e == entries[i]
             index1 == index + e[3]
             coord1 == e[1] + 1
         IN  IF coord1 >= e[2]
             THEN NextLoop([entries EXCEPT ![i] = <<0, e[2], e[3]>>], i + 1,
                           index1 - coord1 * e[3])
             ELSE [entries |-> [entries EXCEPT ![i] = <<coord1, e[2], e[3]>>],
                   index |-> index1, done |-> FALSE]

\* ShapeIter::next: item is <<>> for None and <<position>> for Some
ShapeIter_next(it) ==
    IF it.done THEN [item |-> <<>>, iter |-> it]
    ELSE LET r == NextLoop(it.entries, 1, it.index)
         IN  [item |-> <<it.index>>,
              iter |-> [index |-> r.index, entries |-> r.entries, done |-> r.done]]


\* ShapeView::volume
RECURSIVE ShapeView_volume(_)
ShapeView_volume(view) ==
    IF view.strides = <<>> THEN 1
    ELSE Head(view.strides)[1] * ShapeView_volume([view EXCEPT !.strides = Tail(@)])

\* ShapeView::position: n = offset, then n += c * s over the zipped
\* coordinates and strides
RECURSIVE ShapeView_position(_, _)
ShapeView_position(view, coordinates) ==
    IF coordinates = <<>> \/ view.strides = <<>> THEN view.offset
    ELSE Head(coordinates) * Head(view.strides)[2]
             + ShapeView_position([view EXCEPT !.strides = Tail(@)], Tail(coordinates))

\* positions().collect(): the positions an iterator yields, in order
RECURSIVE Collect(_)
Collect(it) ==
    IF it.done THEN <<>>
    ELSE LET Rest(r) == <<r.item[1]>> \o Collect(r.iter)
         IN  Rest(ShapeIter_next(it))

(***************************************************************************)
(* solver3/shape.rs: Shape with its axes (length, stride), the first axis  *)
(* the fastest.  A shape is kept as [strides, offset] like a view.         *)
(***************************************************************************)
RECURSIVE Solver3_AxesFold(_, _, _, _)
Solver3_AxesFold(lengths, i, stride, axes) ==
    IF i > Len(lengths) THEN axes
    ELSE Solver3_AxesFold(lengths, i + 1, stride * lengths[i],
                          Append(axes, <<lengths[i], stride>>))

\* solver3 Shape::new
Solver3_Shape_new(lengths, offset) ==
    [strides |-> Solver3_AxesFold(lengths, 1, 1, <<>>), offset |-> offset]

\* solver3 Shape::volume and Shape::position: the loops are those of
\* ShapeView::volume and ShapeView::position
Solver3_Shape_volume(shape) == ShapeView_volume(shape)

Solver3_Shape_position(shape, indices) == ShapeView_position(shape, indices)

\* solver3 Shape::permute: axes[new] = self.axes[old] for every (old, new)
\* of map, under the same assertions as ShapeView::permute
Solver3_Shape_permute(shape, map) ==
    LET Result(r) ==
            [ok |-> r.ok,
             shape |-> [strides |-> r.strides, offset |-> shape.offset]]
    IN  IF Len(map) # Len(shape.strides) THEN [ok |-> FALSE, shape |-> shape]
        ELSE Result(PermuteFold(shape.strides, map, 1,
                                Tuple([i \in 1 .. Len(shape.strides) |-> <<0, 0>>])))

\* solver3 Shape::polymer
Solver3_Shape_polymer(shape, lengths, map) ==
    [strides |-> PolymerFold(shape.strides, map, 1,
                             Tuple([i \in 1 .. Len(lengths) |-> <<lengths[i], 0>>])),
     offset |-> shape.offset]

\* solver3 Shape::simplify: the loop is that of ShapeView::simplify
Solver3_Shape_simplify(shape) ==
    LET r == SimplifyLoop(shape.strides, 0, 1)
    IN  [strides |-> SubSeq(r.strides, 1, Min(r.tail + 1, Len(r.strides))),
         offset |-> shape.offset]

\* solver3 ShapeIter::new: entries (coord, dim, stride) in axis order
Solver3_ShapeIter_new(shape) ==
    [index |-> shape.offset,
     entries |-> Tuple([i \in 1 .. Len(shape.strides) |->
                           <<0, shape.strides[i][1], shape.strides[i][2]>>]),
     done |-> \E i \in 1 .. Len(shape.strides) : shape.strides[i][1] = 0]


\* the enumerate loop of Buffer2::apply; pos1 counts the items taken so far
RECURSIVE ApplyLoop(_, _, _, _, _)
ApplyLoop(buf, op, other, it, pos1) ==
    LET r == ShapeIter_next(it)
    IN  IF r.item = <<>> THEN [buf |-> buf, iter |-> r.iter, last |-> pos1, ok |-> TRUE]
        ELSE IF pos1 >= buf.len \/ r.item[1] >= other.len
             THEN [buf |-> buf, iter |-> r.iter, last |-> pos1, ok |-> FALSE]
             ELSE ApplyLoop(
                     Buffer2_set(buf, pos1,
                                 Op222Of(op, Buffer2_get(buf, pos1),
                                         Buffer2_get(other, r.item[1]))),
                     op, other, r.iter, pos1 + 1)

\* variant of Buffer2::apply without the closing length assertion
Buffer2_apply_unchecked(buf, op, other, it) ==
    LET r == ApplyLoop(buf, op, other, it, 0)
    IN  [buf |-> r.buf, iter |-> r.iter, ok |-> r.ok]

\* Buffer2::apply: ok is FALSE when a position is out of range or the
\* iterator did not yield exactly self.len positions
Buffer2_apply(buf, op, other, it) ==
    LET r == ApplyLoop(buf, op, other, it, 0)
    IN  [buf |-> r.buf, iter |-> r.iter, ok |-> r.ok /\ r.last = buf.len]

(***************************************************************************)
(* solver.rs: State.  A state value st is the record                       *)
(* [assignment, steps, levels]; a step is [bvar, reason].                  *)
(***************************************************************************)
State_default == [assignment |-> Buffer2_default, steps |-> <<>>, levels |-> <<>>]

\* State::create_table
State_create_table(st, sizes) ==
    LET shape == Shape_new(sizes, Buffer2_len(st.assignment))
    IN  [shape |-> shape,
         st |-> [st EXCEPT !.assignment =
                    Buffer2_append(st.assignment, Shape_volume(shape), BOOL_UNDEF)]]

\* variant of the assertion of State::assign that accepts every cell
State_assign_any(st, pos) == TRUE

\* the assertion of State::assign
State_assign_ok(st, pos) == Buffer2_get(st.assignment, pos) = BOOL_UNDEF

\* variant of State::assign that writes the opposite value
State_assign_negated(st, pos, sign, reason) ==
    [st EXCEPT !.assignment = Buffer2_set(@, pos, IF sign THEN BOOL_FALSE ELSE BOOL_TRUE),
               !.steps = Append(@, [bvar |-> pos, reason |-> reason])]

\* variant of State::assign that pushes the step and leaves the cell as it is
State_assign_unwritten(st, pos, sign, reason) ==
    [st EXCEPT !.steps = Append(@, [bvar |-> pos, reason |-> reason])]

\* State::assign past its assertion
State_assign(st, pos, sign, reason) ==
    [st EXCEPT !.assignment = Buffer2_set(@, pos, IF sign THEN BOOL_TRUE ELSE BOOL_FALSE),
               !.steps = Append(@, [bvar |-> pos, reason |-> reason])]

\* variant of the search of State::make_decision that takes the highest
\* undefined position
FindUndef_highest(assignment, i) ==
    LET undef == {j \in Range0(Buffer2_len(assignment)) :
                     j >= i /\ Buffer2_get(assignment, j) = BOOL_UNDEF}
    IN  IF undef = {} THEN <<>>
        ELSE <<CHOOSE j \in undef : \A k \in undef : k <= j>>

\* (0..len).find(|i| assignment.get(i) == BOOL_UNDEF): <<>> or <<pos>>
RECURSIVE FindUndef(_, _)
FindUndef(assignment, i) ==
    IF i >= Buffer2_len(assignment) THEN <<>>
    ELSE IF Buffer2_get(assignment, i) = BOOL_UNDEF THEN <<i>>
         ELSE FindUndef(assignment, i + 1)

\* State::make_decision
State_make_decision(st) ==
    LET pos == FindUndef(st.assignment, 0)
    IN  IF pos # <<>>
        THEN [ret |-> TRUE,
              st |-> [assignment |-> Buffer2_set(st.assignment, pos[1], BOOL_TRUE),
                      steps |-> Append(st.steps, [bvar |-> pos[1], reason |-> <<>>]),
                      levels |-> Append(st.levels, Len(st.steps))]]
        ELSE [ret |-> FALSE, st |-> st]

\* variant of the undo loop of State::next_decision that leaves the cells of
\* the dropped steps as they are
UndoSteps_keep(assignment, steps, i) == [assignment |-> assignment, ok |-> TRUE]

\* the for loop of State::next_decision over steps[level + 1 ..]
RECURSIVE UndoSteps(_, _, _)
UndoSteps(assignment, steps, i) ==
    IF i > Len(steps) THEN [assignment |-> assignment, ok |-> TRUE]
    ELSE IF Buffer2_get(assignment, steps[i].bvar) = BOOL_UNDEF
         THEN [assignment |-> assignment, ok |-> FALSE]
         ELSE UndoSteps(Buffer2_set(assignment, steps[i].bvar, BOOL_UNDEF), steps, i + 1)

\* variant of State::next_decision that gives up when the top decision is
\* already FALSE instead of going on to the level below
State_next_decision_top(st) ==
    IF st.levels = <<>> THEN [ret |-> FALSE, st |-> st, ok |-> TRUE]
    ELSE LET level == st.levels[Len(st.levels)]
             popped == [st EXCEPT !.levels = SubSeq(@, 1, Len(@) - 1)]
             val == Buffer2_get(st.assignment, At(st.steps, level).bvar)
             u == UndoSteps(st.assignment, st.steps, level + 2)
         IN  IF val # BOOL_TRUE THEN [ret |-> FALSE, st |-> popped, ok |-> TRUE]
             ELSE [ret |-> TRUE,
                   st |-> [assignment |->
                               Buffer2_set(u.assignment, At(st.steps, level).bvar,
                                           BOOL_FALSE),
                           steps |-> SubSeq(st.steps, 1, level + 1),
                           levels |-> st.levels],
                   ok |-> u.ok]

\* variant of State::next_decision that drops the level and keeps the
\* decision as it was
State_next_decision_again(st) ==
    IF st.levels = <<>> THEN [ret |-> FALSE, st |-> st, ok |-> TRUE]
    ELSE LET level == st.levels[Len(st.levels)]
             popped == [st EXCEPT !.levels = SubSeq(@, 1, Len(@) - 1)]
             u == UndoSteps(st.assignment, st.steps, level + 2)
         IN  [ret |-> TRUE,
              st |-> [assignment |-> u.assignment,
                      steps |-> SubSeq(st.steps, 1, level + 1),
                      levels |-> popped.levels],
              ok |-> u.ok]

\* State::next_decision; ok is FALSE when one of its assertions fails
RECURSIVE State_next_decision(_)
State_next_decision(st) ==
    IF st.levels = <<>> THEN [ret |-> FALSE, st |-> st, ok |-> TRUE]
    ELSE LET level == st.levels[Len(st.levels)]
             popped == [st EXCEPT !.levels = SubSeq(@, 1, Len(@) - 1)]
             val == Buffer2_get(st.assignment, At(st.steps, level).bvar)
         IN  IF val = BOOL_FALSE THEN State_next_decision(popped)
             ELSE IF val # BOOL_TRUE THEN [ret |-> FALSE, st |-> popped, ok |-> FALSE]
             ELSE LET u == UndoSteps(st.assignment, st.steps, level + 2)
                  IN  IF ~u.ok
                      THEN [ret |-> FALSE,
                            st |-> [popped EXCEPT !.assignment = u.assignment],
                            ok |-> FALSE]
                      ELSE [ret |-> TRUE,
                            st |-> [assignment |->
                                        Buffer2_set(u.assignment,
                                                    At(st.steps, level).bvar, BOOL_FALSE),
                                    steps |-> SubSeq(st.steps, 1, level + 1),
                                    levels |-> Append(popped.levels, level)],
                            ok |-> TRUE]

(***************************************************************************)
(* solver.rs: Literal.  A literal is [variable, axes, positions, sign];    *)
(* variable is the shape of its Variable, shared and never changed.        *)
(***************************************************************************)
Literal_new(shape, sign, varshape, axes) ==
    [variable |-> varshape,
     axes |-> axes,
     positions |-> ShapeView_positions(
                       ShapeView_simplify(
                           ShapeView_polymer(ShapeView_new(varshape), shape, axes))),
     sign |-> sign]

\* variant of Literal::evaluate that folds the literal in twice
Literal_evaluate_twice(lit, st, target) ==
    LET Applied(r) ==
            [lit |-> [lit EXCEPT !.positions = r.iter], target |-> r.buf, ok |-> r.ok]
        Again(r) ==
            Applied(Buffer2_apply(r.buf, IF lit.sign THEN FOLD_POS ELSE FOLD_NEG,
                                  st.assignment, ShapeIter_reset(r.iter)))
    IN  Again(Buffer2_apply(target, IF lit.sign THEN FOLD_POS ELSE FOLD_NEG,
                            st.assignment, ShapeIter_reset(lit.positions)))

\* Literal::evaluate: the literal (its iterator moves) and the target
Literal_evaluate(lit, st, target) ==
    LET Applied(r) ==
            [lit |-> [lit EXCEPT !.positions = r.iter], target |-> r.buf, ok |-> r.ok]
    IN  Applied(Buffer2_apply(target, IF lit.sign THEN FOLD_POS ELSE FOLD_NEG,
                              st.assignment, ShapeIter_reset(lit.positions)))

\* Literal::position
\* variant of Literal::position that reads the axes from the last to the
\* first
Literal_position_reversed(lit, coordinates) ==
    Shape_position(lit.variable,
                   Tuple([i \in 1 .. Len(lit.axes) |->
                             At(coordinates, lit.axes[Len(lit.axes) + 1 - i])]))

Literal_position(lit, coordinates) ==
    Shape_position(lit.variable,
                   Tuple([i \in 1 .. Len(lit.axes) |-> At(coordinates, lit.axes[i])]))

(***************************************************************************)
(* solver.rs: Clause.  A clause is [domains, literals, shape, buffer].     *)
(***************************************************************************)
Clause_new(shape, domains, literals) ==
    [domains |-> domains, literals |-> literals, shape |-> shape,
     buffer |-> Buffer2_new(Shape_volume(shape), EVAL_FALSE)]

RECURSIVE EvaluateLits(_, _, _, _)
EvaluateLits(literals, i, st, buffer) ==
    IF i > Len(literals) THEN [literals |-> literals, buffer |-> buffer, ok |-> TRUE]
    ELSE LET Evaluated(r) ==
                 IF ~r.ok THEN [literals |-> literals, buffer |-> r.target, ok |-> FALSE]
                 ELSE EvaluateLits([literals EXCEPT ![i] = r.lit], i + 1, st, r.target)
         IN  Evaluated(Literal_evaluate(literals[i], st, buffer))

\* variant of Clause::evaluate that folds into the buffer as it finds it
Clause_evaluate_unfilled(cla, st) ==
    LET Evaluated(r) ==
            [cla |-> [cla EXCEPT !.literals = r.literals, !.buffer = r.buffer], ok |-> r.ok]
    IN  Evaluated(EvaluateLits(cla.literals, 1, st, cla.buffer))

\* Clause::evaluate
Clause_evaluate(cla, st) ==
    LET Evaluated(r) ==
            [cla |-> [cla EXCEPT !.literals = r.literals, !.buffer = r.buffer], ok |-> r.ok]
    IN  Evaluated(EvaluateLits(cla.literals, 1, st, Buffer2_fill(cla.buffer, EVAL_FALSE)))

RECURSIVE StatusFold(_, _, _)
StatusFold(buffer, pos, res) ==
    IF pos >= Buffer2_len(buffer) THEN res
    ELSE StatusFold(buffer, pos + 1, Op222Of(EVAL_AND, res, Buffer2_get(buffer, pos)))

\* Clause::get_status
Clause_get_status(cla) == StatusFold(cla.buffer, 0, EVAL_TRUE)

\* variant of the loop over the literals that pushes the position of the
\* unit literal to the reason as well
RECURSIVE UnitScan_all(_, _, _, _, _, _, _)
UnitScan_all(literals, i, coordinates, st, unit, sign, reason) ==
    IF i > Len(literals) THEN [unit |-> unit, sign |-> sign, reason |-> reason, ok |-> TRUE]
    ELSE LET bvar == Literal_position(literals[i], coordinates)
         IN  IF Buffer2_get(st.assignment, bvar) = BOOL_UNDEF
             THEN IF sign # <<>>
                  THEN [unit |-> unit, sign |-> sign, reason |-> reason, ok |-> FALSE]
                  ELSE UnitScan_all(literals, i + 1, coordinates, st, bvar,
                                    <<literals[i].sign>>, Append(reason, bvar))
             ELSE UnitScan_all(literals, i + 1, coordinates, st, unit, sign,
                               Append(reason, bvar))

\* the loop of Clause::propagate over the literals of one unit cell:
\* sign is <<>> for None and <<b>> for Some(b)
RECURSIVE UnitScan(_, _, _, _, _, _, _)
UnitScan(literals, i, coordinates, st, unit, sign, reason) ==
    IF i > Len(literals) THEN [unit |-> unit, sign |-> sign, reason |-> reason, ok |-> TRUE]
    ELSE LET bvar == Literal_position(literals[i], coordinates)
         IN  IF Buffer2_get(st.assignment, bvar) = BOOL_UNDEF
             THEN IF sign # <<>>
                  THEN [unit |-> unit, sign |-> sign, reason |-> reason, ok |-> FALSE]
                  ELSE UnitScan(literals, i + 1, coordinates, st, bvar,
                                <<literals[i].sign>>, reason)
             ELSE UnitScan(literals, i + 1, coordinates, st, unit, sign,
                           Append(reason, bvar))

\* variant of the loop over the buffer cells that unwraps the sign: a UNIT
\* cell without an undefined literal assigns the position the scan is left
\* with
RECURSIVE PropagateCells_unwrap(_, _, _, _)
PropagateCells_unwrap(cla, st, pos, res) ==
    IF pos >= Buffer2_len(cla.buffer) THEN [res |-> res, st |-> st, err |-> ""]
    ELSE LET Scanned(u, res1) ==
                 IF ~u.ok THEN [res |-> res, st |-> st, err |-> "UnitInvariantBroken"]
                 ELSE IF ~State_assign_ok(st, u.unit)
                      THEN [res |-> res, st |-> st, err |-> "AlreadyAssigned"]
                      ELSE PropagateCells_unwrap(
                              cla, State_assign(st, u.unit, u.sign[1], u.reason),
                              pos + 1, res1)
             Cell(val) ==
                 IF val = EVAL_UNIT
                 THEN Scanned(UnitScan(cla.literals, 1, Shape_coordinates(cla.shape, pos),
                                       st, 0, <<>>, <<>>),
                              Op222Of(EVAL_AND, res, val))
                 ELSE PropagateCells_unwrap(cla, st, pos + 1, Op222Of(EVAL_AND, res, val))
         IN  Cell(Buffer2_get(cla.buffer, pos))

\* the loop of Clause::propagate over the buffer cells
RECURSIVE PropagateCells(_, _, _, _)
PropagateCells(cla, st, pos, res) ==
    IF pos >= Buffer2_len(cla.buffer) THEN [res |-> res, st |-> st, err |-> ""]
    ELSE LET Scanned(u, res1) ==
                 IF ~u.ok THEN [res |-> res, st |-> st, err |-> "UnitInvariantBroken"]
                 ELSE IF u.sign = <<>> THEN PropagateCells(cla, st, pos + 1, res1)
                 ELSE IF ~State_assign_ok(st, u.unit)
                      THEN [res |-> res, st |-> st, err |-> "AlreadyAssigned"]
                      ELSE PropagateCells(
                              cla, State_assign(st, u.unit, u.sign[1], u.reason),
                              pos + 1, res1)
             Cell(val) ==
                 IF val = EVAL_UNIT
                 THEN Scanned(UnitScan(cla.literals, 1, Shape_coordinates(cla.shape, pos),
                                       st, 0, <<>>, <<>>),
                              Op222Of(EVAL_AND, res, val))
                 ELSE PropagateCells(cla, st, pos + 1, Op222Of(EVAL_AND, res, val))
         IN  Cell(Buffer2_get(cla.buffer, pos))

\* Clause::propagate
Clause_propagate(cla, st) == PropagateCells(cla, st, 0, EVAL_TRUE)

(***************************************************************************)
(* solver.rs: Exist.                                                       *)
(***************************************************************************)
RECURSIVE FiberFold(_, _, _, _)
FiberFold(assignment, i, end, value2) ==
    IF i >= end THEN value2
    ELSE FiberFold(assignment, i + 1, end,
                   Op222Of(FOLD_POS, value2, Buffer2_get(assignment, i)))

RECURSIVE ExistFold(_, _, _, _, _)
ExistFold(assignment, pos, end, block, value1) ==
    IF pos >= end THEN value1
    ELSE ExistFold(assignment, pos + block, end, block,
                   Op222Of(EVAL_AND, value1,
                           FiberFold(assignment, pos, pos + block, EVAL_FALSE)))

\* variant of Exist::get_status that folds the fibers with BOOL_OR, which
\* does not count the undefined cells
Exist_get_status_or(shape, st) ==
    LET range == Shape_positions(shape)
        block == Shape_length(shape, Shape_dimension(shape) - 1)
        Fiber(k) == {Buffer2_get(st.assignment, range.start + k * block + i) :
                        i \in Range0(block)}
        Value(k) == IF BOOL_TRUE \in Fiber(k) THEN BOOL_TRUE
                    ELSE IF BOOL_UNDEF \in Fiber(k) THEN BOOL_UNDEF
                    ELSE BOOL_FALSE
        fibers == IF block = 0 THEN {}
                  ELSE {Value(k) : k \in Range0((range.end - range.start) \div block)}
    IN  IF fibers = {} THEN EVAL_TRUE
        ELSE IF BOOL_FALSE \in fibers THEN BOOL_FALSE
        ELSE IF BOOL_UNDEF \in fibers THEN BOOL_UNDEF
        ELSE BOOL_TRUE

\* variant of Exist::get_status that folds the fibers in from EVAL_UNDEF
Exist_get_status_from_undef(shape, st) ==
    LET range == Shape_positions(shape)
        block == Shape_length(shape, Shape_dimension(shape) - 1)
    IN  ExistFold(st.assignment, range.start, range.end, block, EVAL_UNDEF)

\* Exist::get_status for the exists axiom of the variable with this shape
Exist_get_status(shape, st) ==
    LET range == Shape_positions(shape)
        block == Shape_length(shape, Shape_dimension(shape) - 1)
    IN  ExistFold(st.assignment, range.start, range.end, block, EVAL_TRUE)


(***************************************************************************)
(* solver.rs: Domain and Variable.  An Rc<Domain> is [id, size]: id is the *)
(* identity of the allocation (its index in Solver.domains).  Names only   *)
(* feed the uniqueness assertions and the printing and are left out.       *)
(***************************************************************************)
\* variant of Domain::eq that compares the sizes, not the allocations
Domain_same_size(dom1, dom2) == dom1.size = dom2.size

\* Domain::eq: std::ptr::eq of the two allocations
Domain_eq(dom1, dom2) == dom1.id = dom2.id

\* Variable::new
Variable_new(st, doms) ==
    LET r == State_create_table(st, Tuple([i \in 1 .. Len(doms) |-> doms[i].size]))
    IN  [variable |-> [shape |-> r.shape, domains |-> doms], st |-> r.st]

(***************************************************************************)
(* solver.rs: Solver::add_clause, the inference of the clause domains.     *)
(* A missing domain (None) is <<>>, Some(dom) is <<dom>>.                  *)
(***************************************************************************)
RECURSIVE InferIndices(_, _, _, _)
InferIndices(vardoms, indices, pos, doms) ==
    IF pos > Len(indices) THEN [doms |-> doms, err |-> ""]
    ELSE LET idx == indices[pos]
             doms1 == IF Len(doms) <= idx THEN Resize(doms, idx + 1, <<>>) ELSE doms
             dom1 == vardoms[pos]
             dom2 == At(doms1, idx)
         IN  IF dom2 = <<>>
             THEN InferIndices(vardoms, indices, pos + 1,
                               [doms1 EXCEPT ![idx + 1] = <<dom1>>])
             ELSE IF Domain_eq(dom1, dom2[1])
                  THEN InferIndices(vardoms, indices, pos + 1, doms1)
                  ELSE [doms |-> doms1, err |-> "DomainMismatch"]

RECURSIVE InferDomains(_, _, _, _)
InferDomains(vars, literals, i, doms) ==
    IF i > Len(literals) THEN [doms |-> doms, err |-> ""]
    ELSE LET var == vars[literals[i].var]
         IN  IF Len(var.domains) # Len(literals[i].indices)
             THEN [doms |-> doms, err |-> "ArityMismatch"]
             ELSE LET r == InferIndices(var.domains, literals[i].indices, 1, doms)
                  IN  IF r.err # "" THEN r
                      ELSE InferDomains(vars, literals, i + 1, r.doms)

\* Solver::add_clause: the clause built from the literals (sign, var,
\* indices), or the assertion that failed
Solver_add_clause(vars, literals) ==
    LET r == InferDomains(vars, literals, 1, <<>>)
    IN  IF r.err # "" THEN [err |-> r.err, clause |-> <<>>]
        ELSE IF \E k \in 1 .. Len(r.doms) : r.doms[k] = <<>>
             THEN [err |-> "UnwrapNone", clause |-> <<>>]
             ELSE LET doms == Tuple([k \in 1 .. Len(r.doms) |-> r.doms[k][1]])
                      shape == Shape_new(Tuple([k \in 1 .. Len(doms) |-> doms[k].size]), 0)
                      lits == Tuple([k \in 1 .. Len(literals) |->
                                        Literal_new(shape, literals[k].sign,
                                                    vars[literals[k].var].shape,
                                                    Tuple(literals[k].indices))])
                  IN  [err |-> "", clause |-> <<Clause_new(shape, doms, lits)>>]

(***************************************************************************)
(* solver.rs: Solver::set_equality, get_clauses_status, get_exists_status, *)
(* evaluate_all and propagate.                                             *)
(***************************************************************************)
\* variant of the loops of Solver::set_equality that forces every cell TRUE
RECURSIVE EqualityLoop_all(_, _, _)
EqualityLoop_all(st, shape, k) ==
    IF k >= Shape_length(shape, 0) * Shape_length(shape, 1) THEN [st |-> st, ok |-> TRUE]
    ELSE IF ~State_assign_ok(st, Shape_position(shape, <<k \div Shape_length(shape, 1),
                                                          k % Shape_length(shape, 1)>>))
         THEN [st |-> st, ok |-> FALSE]
         ELSE EqualityLoop_all(
                 State_assign(st, Shape_position(shape, <<k \div Shape_length(shape, 1),
                                                          k % Shape_length(shape, 1)>>),
                              TRUE, <<>>),
                 shape, k + 1)

\* the two nested loops of Solver::set_equality, cell k = i * len1 + j
RECURSIVE EqualityLoop(_, _, _)
EqualityLoop(st, shape, k) ==
    IF k >= Shape_length(shape, 0) * Shape_length(shape, 1) THEN [st |-> st, ok |-> TRUE]
    ELSE LET i == k \div Shape_length(shape, 1)
             j == k % Shape_length(shape, 1)
             pos == Shape_position(shape, <<i, j>>)
         IN  IF ~State_assign_ok(st, pos) THEN [st |-> st, ok |-> FALSE]
             ELSE EqualityLoop(State_assign(st, pos, i = j, <<>>), shape, k + 1)

RECURSIVE ClausesStatusFold(_, _, _)
ClausesStatusFold(clas, i, res) ==
    IF i > Len(clas) THEN res
    ELSE ClausesStatusFold(clas, i + 1, Op222Of(EVAL_AND, res, Clause_get_status(clas[i])))

Solver_get_clauses_status(clas) == ClausesStatusFold(clas, 1, EVAL_TRUE)

RECURSIVE ExistsStatusFold(_, _, _, _)
ExistsStatusFold(exts, i, st, res) ==
    IF i > Len(exts) THEN res
    ELSE ExistsStatusFold(exts, i + 1, st,
                          Op222Of(EVAL_AND, res, Exist_get_status(exts[i], st)))

\* Solver::get_exists_status; an Exist is the shape of its variable
Solver_get_exists_status(exts, st) == ExistsStatusFold(exts, 1, st, EVAL_TRUE)

\* Solver::evaluate_all
Solver_evaluate_all(clas, st) ==
    Tuple([i \in 1 .. Len(clas) |-> Clause_evaluate(clas[i], st).cla])

\* variant of the loop of Solver::propagate that counts a unit visit as a
\* quiet one, so that it stops after a single sweep over the clauses
RECURSIVE PropagateLoop_single_sweep(_, _, _, _, _)
PropagateLoop_single_sweep(clas, st, num, res, idx) ==
    IF num >= Len(clas) THEN [clauses |-> clas, st |-> st, res |-> res, err |-> ""]
    ELSE LET Propagated(idx0, clas1, p) ==
                 IF p.err # "" THEN [clauses |-> clas1, st |-> p.st, res |-> res, err |-> p.err]
                 ELSE IF p.res = EVAL_FALSE
                      THEN [clauses |-> clas1, st |-> p.st, res |-> EVAL_FALSE, err |-> ""]
                 ELSE IF p.res = EVAL_UNIT
                      THEN PropagateLoop_single_sweep(clas1, p.st, num + 1, EVAL_TRUE,
                                                      idx0 + 1)
                 ELSE PropagateLoop_single_sweep(clas1, p.st, num + 1,
                                                 Op222Of(EVAL_AND, res, p.res), idx0 + 1)
             Evaluated(idx0, e) ==
                 IF ~e.ok
                 THEN [clauses |-> [clas EXCEPT ![idx0 + 1] = e.cla], st |-> st,
                       res |-> res, err |-> "ApplyLength"]
                 ELSE Propagated(idx0, [clas EXCEPT ![idx0 + 1] = e.cla],
                                 Clause_propagate(e.cla, st))
             Visit(idx0) == Evaluated(idx0, Clause_evaluate(At(clas, idx0), st))
         IN  Visit(IF idx >= Len(clas) THEN 0 ELSE idx)

\* the while loop of Solver::propagate; idx is 0-based
RECURSIVE PropagateLoop(_, _, _, _, _)
PropagateLoop(clas, st, num, res, idx) ==
    IF num >= Len(clas) THEN [clauses |-> clas, st |-> st, res |-> res, err |-> ""]
    ELSE LET Propagated(idx0, clas1, p) ==
                 IF p.err # "" THEN [clauses |-> clas1, st |-> p.st, res |-> res, err |-> p.err]
                 ELSE IF p.res = EVAL_FALSE
                      THEN [clauses |-> clas1, st |-> p.st, res |-> EVAL_FALSE, err |-> ""]
                 ELSE IF p.res = EVAL_UNIT
                      THEN PropagateLoop(clas1, p.st, 0, EVAL_TRUE, idx0 + 1)
                 ELSE PropagateLoop(clas1, p.st, num + 1,
                                    Op222Of(EVAL_AND, res, p.res), idx0 + 1)
             Evaluated(idx0, e) ==
                 IF ~e.ok
                 THEN [clauses |-> [clas EXCEPT ![idx0 + 1] = e.cla], st |-> st,
                       res |-> res, err |-> "ApplyLength"]
                 ELSE Propagated(idx0, [clas EXCEPT ![idx0 + 1] = e.cla],
                                 Clause_propagate(e.cla, st))
             Visit(idx0) == Evaluated(idx0, Clause_evaluate(At(clas, idx0), st))
         IN  Visit(IF idx >= Len(clas) THEN 0 ELSE idx)

\* one pass through the body of the while loop of Solver::propagate: the
\* loop variables after it, the value val the clause has returned, and
\* whether the loop was left by break
PropagateVisit(clas, st, num, res, idx) ==
    LET idx0 == IF idx >= Len(clas) THEN 0 ELSE idx
        Propagated(clas1, p) ==
            IF p.err # ""
            THEN [clauses |-> clas1, st |-> p.st, num |-> num, res |-> res,
                  idx |-> idx0 + 1, val |-> p.res, brk |-> TRUE, err |-> p.err]
            ELSE IF p.res = EVAL_FALSE
            THEN [clauses |-> clas1, st |-> p.st, num |-> num, res |-> EVAL_FALSE,
                  idx |-> idx0 + 1, val |-> p.res, brk |-> TRUE, err |-> ""]
            ELSE IF p.res = EVAL_UNIT
            THEN [clauses |-> clas1, st |-> p.st, num |-> 0, res |-> EVAL_TRUE,
                  idx |-> idx0 + 1, val |-> p.res, brk |-> FALSE, err |-> ""]
            ELSE [clauses |-> clas1, st |-> p.st, num |-> num + 1,
                  res |-> Op222Of(EVAL_AND, res, p.res),
                  idx |-> idx0 + 1, val |-> p.res, brk |-> FALSE, err |-> ""]
        Evaluated(e) ==
            IF ~e.ok
            THEN [clauses |-> [clas EXCEPT ![idx0 + 1] = e.cla], st |-> st, num |-> num,
                  res |-> res, idx |-> idx0 + 1, val |-> res, brk |-> TRUE,
                  err |-> "ApplyLength"]
            ELSE Propagated([clas EXCEPT ![idx0 + 1] = e.cla], Clause_propagate(e.cla, st))
    IN  Evaluated(Clause_evaluate(At(clas, idx0), st))

\* Solver::propagate with its two closing assertions
Solver_propagate(clas, st) ==
    LET Closing(r) ==
            IF r.err # "" THEN r
            ELSE IF r.res = EVAL_UNIT \/ r.res # Solver_get_clauses_status(r.clauses)
                 THEN [r EXCEPT !.err = "PropagateStatus"]
                 ELSE r
    IN  Closing(PropagateLoop(clas, st, 0, EVAL_TRUE, 0))


(***************************************************************************)
(* solver1/bitops.rs and solver1/solver.rs: the earlier solver, which      *)
(* keeps one scale FALSE < UNDEF1 < UNDEF2 < TRUE for cells of the         *)
(* assignment (UNDEF1 is "not assigned") and of the clause buffers (UNDEF1 *)
(* is "unit"), and propagates by repeated full sweeps.  Its reasons are    *)
(* <<"Initial">>, <<"Decision">>, <<"Clause", positions>>, <<"Exists">>.   *)
(***************************************************************************)
Solver1_BOOL_FALSE == 0
Solver1_BOOL_UNDEF1 == 1
Solver1_BOOL_UNDEF2 == 2
Solver1_BOOL_TRUE == 3

Solver1_BOOL_OR == Op222New(<<
    <<Solver1_BOOL_FALSE, Solver1_BOOL_FALSE, Solver1_BOOL_FALSE>>,
    <<Solver1_BOOL_FALSE, Solver1_BOOL_UNDEF1, Solver1_BOOL_UNDEF1>>,
    <<Solver1_BOOL_FALSE, Solver1_BOOL_UNDEF2, Solver1_BOOL_UNDEF2>>,
    <<Solver1_BOOL_FALSE, Solver1_BOOL_TRUE, Solver1_BOOL_TRUE>>,
    <<Solver1_BOOL_UNDEF1, Solver1_BOOL_FALSE, Solver1_BOOL_UNDEF1>>,
    <<Solver1_BOOL_UNDEF1, Solver1_BOOL_UNDEF1, Solver1_BOOL_UNDEF2>>,
    <<Solver1_BOOL_UNDEF1, Solver1_BOOL_UNDEF2, Solver1_BOOL_UNDEF2>>,
    <<Solver1_BOOL_UNDEF1, Solver1_BOOL_TRUE, Solver1_BOOL_TRUE>>,
    <<Solver1_BOOL_UNDEF2, Solver1_BOOL_FALSE, Solver1_BOOL_UNDEF2>>,
    <<Solver1_BOOL_UNDEF2, Solver1_BOOL_UNDEF1, Solver1_BOOL_UNDEF2>>,
    <<Solver1_BOOL_UNDEF2, Solver1_BOOL_UNDEF2, Solver1_BOOL_UNDEF2>>,
    <<Solver1_BOOL_UNDEF2, Solver1_BOOL_TRUE, Solver1_BOOL_TRUE>>,
    <<Solver1_BOOL_TRUE, Solver1_BOOL_FALSE, Solver1_BOOL_TRUE>>,
    <<Solver1_BOOL_TRUE, Solver1_BOOL_UNDEF1, Solver1_BOOL_TRUE>>,
    <<Solver1_BOOL_TRUE, Solver1_BOOL_UNDEF2, Solver1_BOOL_TRUE>>,
    <<Solver1_BOOL_TRUE, Solver1_BOOL_TRUE, Solver1_BOOL_TRUE>> >>)

Solver1_BOOL_ORNOT == Op222New(<<
    <<Solver1_BOOL_FALSE, Solver1_BOOL_TRUE, Solver1_BOOL_FALSE>>,
    <<Solver1_BOOL_FALSE, Solver1_BOOL_UNDEF1, Solver1_BOOL_UNDEF1>>,
    <<Solver1_BOOL_FALSE, Solver1_BOOL_UNDEF2, Solver1_BOOL_UNDEF2>>,
    <<Solver1_BOOL_FALSE, Solver1_BOOL_FALSE, Solver1_BOOL_TRUE>>,
    <<Solver1_BOOL_UNDEF1, Solver1_BOOL_TRUE, Solver1_BOOL_UNDEF1>>,
    <<Solver1_BOOL_UNDEF1, Solver1_BOOL_UNDEF1, Solver1_BOOL_UNDEF2>>,
    <<Solver1_BOOL_UNDEF1, Solver1_BOOL_UNDEF2, Solver1_BOOL_UNDEF2>>,
    <<Solver1_BOOL_UNDEF1, Solver1_BOOL_FALSE, Solver1_BOOL_TRUE>>,
    <<Solver1_BOOL_UNDEF2, Solver1_BOOL_TRUE, Solver1_BOOL_UNDEF2>>,
    <<Solver1_BOOL_UNDEF2, Solver1_BOOL_UNDEF1, Solver1_BOOL_UNDEF2>>,
    <<Solver1_BOOL_UNDEF2, Solver1_BOOL_UNDEF2, Solver1_BOOL_UNDEF2>>,
    <<Solver1_BOOL_UNDEF2, Solver1_BOOL_FALSE, Solver1_BOOL_TRUE>>,
    <<Solver1_BOOL_TRUE, Solver1_BOOL_TRUE, Solver1_BOOL_TRUE>>,
    <<Solver1_BOOL_TRUE, Solver1_BOOL_UNDEF1, Solver1_BOOL_TRUE>>,
    <<Solver1_BOOL_TRUE, Solver1_BOOL_UNDEF2, Solver1_BOOL_TRUE>>,
    <<Solver1_BOOL_TRUE, Solver1_BOOL_FALSE, Solver1_BOOL_TRUE>> >>)

Solver1_BOOL_AND == Op222New(<<
    <<Solver1_BOOL_FALSE, Solver1_BOOL_FALSE, Solver1_BOOL_FALSE>>,
    <<Solver1_BOOL_FALSE, Solver1_BOOL_UNDEF1, Solver1_BOOL_FALSE>>,
    <<Solver1_BOOL_FALSE, Solver1_BOOL_UNDEF2, Solver1_BOOL_FALSE>>,
    <<Solver1_BOOL_FALSE, Solver1_BOOL_TRUE, Solver1_BOOL_FALSE>>,
    <<Solver1_BOOL_UNDEF1, Solver1_BOOL_FALSE, Solver1_BOOL_FALSE>>,
    <<Solver1_BOOL_UNDEF1, Solver1_BOOL_UNDEF1, Solver1_BOOL_UNDEF1>>,
    <<Solver1_BOOL_UNDEF1, Solver1_BOOL_UNDEF2, Solver1_BOOL_UNDEF1>>,
    <<Solver1_BOOL_UNDEF1, Solver1_BOOL_TRUE, Solver1_BOOL_UNDEF1>>,
    <<Solver1_BOOL_UNDEF2, Solver1_BOOL_FALSE, Solver1_BOOL_FALSE>>,
    <<Solver1_BOOL_UNDEF2, Solver1_BOOL_UNDEF1, Solver1_BOOL_UNDEF1>>,
    <<Solver1_BOOL_UNDEF2, Solver1_BOOL_UNDEF2, Solver1_BOOL_UNDEF2>>,
    <<Solver1_BOOL_UNDEF2, Solver1_BOOL_TRUE, Solver1_BOOL_UNDEF2>>,
    <<Solver1_BOOL_TRUE, Solver1_BOOL_FALSE, Solver1_BOOL_FALSE>>,
    <<Solver1_BOOL_TRUE, Solver1_BOOL_UNDEF1, Solver1_BOOL_UNDEF1>>,
    <<Solver1_BOOL_TRUE, Solver1_BOOL_UNDEF2, Solver1_BOOL_UNDEF2>>,
    <<Solver1_BOOL_TRUE, Solver1_BOOL_TRUE, Solver1_BOOL_TRUE>> >>)

\* solver1 State::assign: the assertion, then the write and the push
Solver1_State_assign_ok(st, pos) == Buffer2_get(st.assignment, pos) = Solver1_BOOL_UNDEF1

Solver1_State_assign(st, pos, sign, reason) ==
    [st EXCEPT !.assignment = Buffer2_set(@, pos, IF sign THEN Solver1_BOOL_TRUE
                                                    ELSE Solver1_BOOL_FALSE),
               !.steps = Append(@, [bvar |-> pos, reason |-> reason])]

\* solver1 State::make_decision
RECURSIVE Solver1_FindUndef(_, _)
Solver1_FindUndef(assignment, i) ==
    IF i >= Buffer2_len(assignment) THEN <<>>
    ELSE IF Buffer2_get(assignment, i) = Solver1_BOOL_UNDEF1 THEN <<i>>
         ELSE Solver1_FindUndef(assignment, i + 1)

\* variant of solver1 State::make_decision that pushes the step with the
\* default reason
Solver1_State_make_decision_initial(st) ==
    LET pos == Solver1_FindUndef(st.assignment, 0)
    IN  IF pos # <<>>
        THEN [ret |-> TRUE,
              st |-> [assignment |-> Buffer2_set(st.assignment, pos[1], Solver1_BOOL_TRUE),
                      steps |-> Append(st.steps, [bvar |-> pos[1], reason |-> <<"Initial">>]),
                      levels |-> Append(st.levels, Len(st.steps))]]
        ELSE [ret |-> FALSE, st |-> st]

Solver1_State_make_decision(st) ==
    LET pos == Solver1_FindUndef(st.assignment, 0)
    IN  IF pos # <<>>
        THEN [ret |-> TRUE,
              st |-> [assignment |-> Buffer2_set(st.assignment, pos[1], Solver1_BOOL_TRUE),
                      steps |-> Append(st.steps, [bvar |-> pos[1], reason |-> <<"Decision">>]),
                      levels |-> Append(st.levels, Len(st.steps))]]
        ELSE [ret |-> FALSE, st |-> st]

\* the for loop of solver1 State::next_decision over steps[level + 1 ..]
RECURSIVE Solver1_UndoSteps(_, _, _)
Solver1_UndoSteps(assignment, steps, i) ==
    IF i > Len(steps) THEN [assignment |-> assignment, ok |-> TRUE]
    ELSE IF Buffer2_get(assignment, steps[i].bvar) = Solver1_BOOL_UNDEF1
         THEN [assignment |-> assignment, ok |-> FALSE]
         ELSE Solver1_UndoSteps(Buffer2_set(assignment, steps[i].bvar, Solver1_BOOL_UNDEF1),
                                steps, i + 1)

\* variant of solver1 State::next_decision that does not truncate the steps
Solver1_State_next_decision_untruncated(st) ==
    IF st.levels = <<>> THEN [ret |-> FALSE, st |-> st, ok |-> TRUE]
    ELSE LET level == st.levels[Len(st.levels)]
             u == Solver1_UndoSteps(st.assignment, st.steps, level + 2)
         IN  [ret |-> TRUE,
              st |-> [assignment |->
                          Buffer2_set(u.assignment, At(st.steps, level).bvar,
                                      Solver1_BOOL_FALSE),
                      steps |-> st.steps,
                      levels |-> st.levels],
              ok |-> u.ok]

\* solver1 State::next_decision; ok is FALSE when one of its assertions fails
RECURSIVE Solver1_State_next_decision(_)
Solver1_State_next_decision(st) ==
    IF st.levels = <<>> THEN [ret |-> FALSE, st |-> st, ok |-> TRUE]
    ELSE LET level == st.levels[Len(st.levels)]
             popped == [st EXCEPT !.levels = SubSeq(@, 1, Len(@) - 1)]
             val == Buffer2_get(st.assignment, At(st.steps, level).bvar)
         IN  IF val = Solver1_BOOL_FALSE THEN Solver1_State_next_decision(popped)
             ELSE IF val # Solver1_BOOL_TRUE THEN [ret |-> FALSE, st |-> popped, ok |-> FALSE]
             ELSE LET u == Solver1_UndoSteps(st.assignment, st.steps, level + 2)
                  IN  IF ~u.ok
                      THEN [ret |-> FALSE,
                            st |-> [popped EXCEPT !.assignment = u.assignment],
                            ok |-> FALSE]
                      ELSE [ret |-> TRUE,
                            st |-> [assignment |->
                                        Buffer2_set(u.assignment,
                                                    At(st.steps, level).bvar,
                                                    Solver1_BOOL_FALSE),
                                    steps |-> SubSeq(st.steps, 1, level + 1),
                                    levels |-> Append(popped.levels, level)],
                            ok |-> TRUE]

\* solver1 Literal::evaluate
Solver1_Literal_evaluate(lit, st, target) ==
    LET Applied(r) ==
            [lit |-> [lit EXCEPT !.positions = r.iter], target |-> r.buf, ok |-> r.ok]
    IN  Applied(Buffer2_apply(target,
                              IF lit.sign THEN Solver1_BOOL_OR ELSE Solver1_BOOL_ORNOT,
                              st.assignment, ShapeIter_reset(lit.positions)))

RECURSIVE Solver1_EvaluateLits(_, _, _, _)
Solver1_EvaluateLits(literals, i, st, buffer) ==
    IF i > Len(literals) THEN [literals |-> literals, buffer |-> buffer, ok |-> TRUE]
    ELSE LET Evaluated(r) ==
                 IF ~r.ok THEN [literals |-> literals, buffer |-> r.target, ok |-> FALSE]
                 ELSE Solver1_EvaluateLits([literals EXCEPT ![i] = r.lit], i + 1, st,
                                           r.target)
         IN  Evaluated(Solver1_Literal_evaluate(literals[i], st, buffer))

\* solver1 Clause::evaluate
Solver1_Clause_evaluate(cla, st) ==
    LET Evaluated(r) ==
            [cla |-> [cla EXCEPT !.literals = r.literals, !.buffer = r.buffer], ok |-> r.ok]
    IN  Evaluated(Solver1_EvaluateLits(cla.literals, 1, st,
                                       Buffer2_fill(cla.buffer, Solver1_BOOL_FALSE)))

RECURSIVE Solver1_StatusFold(_, _, _)
Solver1_StatusFold(buffer, pos, res) ==
    IF pos >= Buffer2_len(buffer) THEN res
    ELSE Solver1_StatusFold(buffer, pos + 1,
                            Op222Of(Solver1_BOOL_AND, res, Buffer2_get(buffer, pos)))

\* solver1 Clause::get_status
Solver1_Clause_get_status(cla) == Solver1_StatusFold(cla.buffer, 0, Solver1_BOOL_TRUE)

\* the loop of solver1 Clause::propagate over the literals of one unit cell
RECURSIVE Solver1_UnitScan(_, _, _, _, _, _, _)
Solver1_UnitScan(literals, i, coordinates, st, unit, sign, reason) ==
    IF i > Len(literals) THEN [unit |-> unit, sign |-> sign, reason |-> reason, ok |-> TRUE]
    ELSE LET bvar == Literal_position(literals[i], coordinates)
         IN  IF Buffer2_get(st.assignment, bvar) = Solver1_BOOL_UNDEF1
             THEN IF sign # <<>>
                  THEN [unit |-> unit, sign |-> sign, reason |-> reason, ok |-> FALSE]
                  ELSE Solver1_UnitScan(literals, i + 1, coordinates, st, bvar,
                                        <<literals[i].sign>>, reason)
             ELSE Solver1_UnitScan(literals, i + 1, coordinates, st, unit, sign,
                                   Append(reason, bvar))

\* the loop of solver1 Clause::propagate over the buffer cells: it stops at
\* the first FALSE cell
RECURSIVE Solver1_PropagateCells(_, _, _, _)
Solver1_PropagateCells(cla, st, pos, result) ==
    IF pos >= Buffer2_len(cla.buffer) THEN [res |-> result, st |-> st, err |-> ""]
    ELSE LET Scanned(u, result1) ==
                 IF ~u.ok THEN [res |-> result1, st |-> st, err |-> "UnitInvariantBroken"]
                 ELSE IF u.sign = <<>>
                      THEN Solver1_PropagateCells(cla, st, pos + 1, result1)
                 ELSE IF ~Solver1_State_assign_ok(st, u.unit)
                      THEN [res |-> result1, st |-> st, err |-> "AlreadyAssigned"]
                      ELSE Solver1_PropagateCells(
                              cla,
                              Solver1_State_assign(st, u.unit, u.sign[1],
                                                   <<"Clause", u.reason>>),
                              pos + 1, result1)
             Cell(val, result1) ==
                 IF val = Solver1_BOOL_FALSE THEN [res |-> result1, st |-> st, err |-> ""]
                 ELSE IF val = Solver1_BOOL_UNDEF1
                      THEN Scanned(Solver1_UnitScan(cla.literals, 1,
                                                    Shape_coordinates(cla.shape, pos),
                                                    st, 0, <<>>, <<>>),
                                   result1)
                 ELSE Solver1_PropagateCells(cla, st, pos + 1, result1)
             Folded(val) == Cell(val, Op222Of(Solver1_BOOL_AND, result, val))
         IN  Folded(Buffer2_get(cla.buffer, pos))

\* solver1 Clause::propagate with its closing assertion
Solver1_Clause_propagate(cla, st) ==
    LET Closing(r) ==
            IF r.err # "" THEN r
            ELSE IF r.res # Solver1_Clause_get_status(cla) /\ r.res # Solver1_BOOL_UNDEF1
                 THEN [r EXCEPT !.err = "ClauseCheck"]
                 ELSE r
    IN  Closing(Solver1_PropagateCells(cla, st, 0, Solver1_BOOL_TRUE))

RECURSIVE Solver1_ClausesStatusFold(_, _, _)
Solver1_ClausesStatusFold(clas, i, res) ==
    IF i > Len(clas) THEN res
    ELSE Solver1_ClausesStatusFold(
             clas, i + 1, Op222Of(Solver1_BOOL_AND, res, Solver1_Clause_get_status(clas[i])))

\* solver1 Solver::get_clauses_status
Solver1_get_clauses_status(clas) == Solver1_ClausesStatusFold(clas, 1, Solver1_BOOL_TRUE)

\* the loop of solver1 Solver::propagate_clauses: one sweep over all the
\* clauses, which goes on after a clause has returned FALSE
RECURSIVE Solver1_SweepLoop(_, _, _, _)
Solver1_SweepLoop(clas, st, i, result) ==
    IF i > Len(clas) THEN [clauses |-> clas, st |-> st, res |-> result, err |-> ""]
    ELSE LET Propagated(clas1, p) ==
                 IF p.err # ""
                 THEN [clauses |-> clas1, st |-> p.st, res |-> result, err |-> p.err]
                 ELSE Solver1_SweepLoop(clas1, p.st, i + 1,
                                        Op222Of(Solver1_BOOL_AND, result, p.res))
             Evaluated(e) ==
                 IF ~e.ok
                 THEN [clauses |-> [clas EXCEPT ![i] = e.cla], st |-> st,
                       res |-> result, err |-> "ApplyLength"]
                 ELSE Propagated([clas EXCEPT ![i] = e.cla],
                                 Solver1_Clause_propagate(e.cla, st))
         IN  Evaluated(Solver1_Clause_evaluate(clas[i], st))

\* solver1 Solver::propagate_clauses with its closing assertion
Solver1_propagate_clauses(clas, st) ==
    LET Closing(r) ==
            IF r.err # "" THEN r
            ELSE IF r.res # Solver1_get_clauses_status(r.clauses)
                    /\ r.res # Solver1_BOOL_UNDEF1
                 THEN [r EXCEPT !.err = "ClausesCheck"]
                 ELSE r
    IN  Closing(Solver1_SweepLoop(clas, st, 1, Solver1_BOOL_TRUE))

\* solver1 Exist::get_status: the fold of one fiber with BOOL_OR, which
\* counts the undefined cells, and of the fibers with BOOL_AND
RECURSIVE Solver1_FiberFold(_, _, _, _)
Solver1_FiberFold(assignment, i, end, value2) ==
    IF i >= end THEN value2
    ELSE Solver1_FiberFold(assignment, i + 1, end,
                           Op222Of(Solver1_BOOL_OR, value2, Buffer2_get(assignment, i)))

RECURSIVE Solver1_ExistFold(_, _, _, _, _)
Solver1_ExistFold(assignment, pos, end, block, value1) ==
    IF pos >= end THEN value1
    ELSE Solver1_ExistFold(assignment, pos + block, end, block,
                           Op222Of(Solver1_BOOL_AND, value1,
                                   Solver1_FiberFold(assignment, pos, pos + block,
                                                     Solver1_BOOL_FALSE)))

Solver1_Exist_get_status(shape, st) ==
    LET range == Shape_positions(shape)
        block == Shape_length(shape, Shape_dimension(shape) - 1)
    IN  Solver1_ExistFold(st.assignment, range.start, range.end, block, Solver1_BOOL_TRUE)

RECURSIVE Solver1_ExistsStatusFold(_, _, _, _)
Solver1_ExistsStatusFold(exts, i, st, res) ==
    IF i > Len(exts) THEN res
    ELSE Solver1_ExistsStatusFold(
             exts, i + 1, st,
             Op222Of(Solver1_BOOL_AND, res, Solver1_Exist_get_status(exts[i], st)))

\* solver1 Solver::get_exists_status
Solver1_get_exists_status(exts, st) ==
    Solver1_ExistsStatusFold(exts, 1, st, Solver1_BOOL_TRUE)

\* the inner loop of solver1 Exist::propagate over one fiber: unit_pos is
\* <<>> for None and <<i>> for Some(i)
RECURSIVE Solver1_FiberScan(_, _, _, _, _)
Solver1_FiberScan(assignment, i, end, value2, unit_pos) ==
    IF i >= end THEN [value2 |-> value2, unit_pos |-> unit_pos]
    ELSE Solver1_FiberScan(assignment, i + 1, end,
                           Op222Of(Solver1_BOOL_OR, value2, Buffer2_get(assignment, i)),
                           IF Buffer2_get(assignment, i) = Solver1_BOOL_UNDEF1
                           THEN <<i>> ELSE unit_pos)

\* variant of the loop over the fibers that goes on behind a FALSE fiber
RECURSIVE Solver1_ExistLoop_all(_, _, _, _, _)
Solver1_ExistLoop_all(st, pos, end, block, result) ==
    IF pos >= end THEN [res |-> result, st |-> st, err |-> ""]
    ELSE LET Fiber(f, result1) ==
                 IF f.value2 = Solver1_BOOL_UNDEF1
                 THEN IF f.unit_pos = <<>>
                      THEN [res |-> result1, st |-> st, err |-> "UnitPos"]
                      ELSE IF ~Solver1_State_assign_ok(st, f.unit_pos[1])
                      THEN [res |-> result1, st |-> st, err |-> "AlreadyAssigned"]
                      ELSE Solver1_ExistLoop_all(
                               Solver1_State_assign(st, f.unit_pos[1], TRUE, <<"Exists">>),
                               pos + block, end, block, result1)
                 ELSE Solver1_ExistLoop_all(st, pos + block, end, block, result1)
             Scanned(f) == Fiber(f, Op222Of(Solver1_BOOL_AND, result, f.value2))
         IN  Scanned(Solver1_FiberScan(st.assignment, pos, pos + block,
                                       Solver1_BOOL_FALSE, <<>>))

\* the loop of solver1 Exist::propagate over the fibers: it stops at the
\* first FALSE fiber
RECURSIVE Solver1_ExistLoop(_, _, _, _, _)
Solver1_ExistLoop(st, pos, end, block, result) ==
    IF pos >= end THEN [res |-> result, st |-> st, err |-> ""]
    ELSE LET Fiber(f, result1) ==
                 IF f.value2 = Solver1_BOOL_FALSE
                 THEN [res |-> result1, st |-> st, err |-> ""]
                 ELSE IF f.value2 = Solver1_BOOL_UNDEF1
                 THEN IF f.unit_pos = <<>>
                      THEN [res |-> result1, st |-> st, err |-> "UnitPos"]
                      ELSE IF ~Solver1_State_assign_ok(st, f.unit_pos[1])
                      THEN [res |-> result1, st |-> st, err |-> "AlreadyAssigned"]
                      ELSE Solver1_ExistLoop(
                               Solver1_State_assign(st, f.unit_pos[1], TRUE, <<"Exists">>),
                               pos + block, end, block, result1)
                 ELSE Solver1_ExistLoop(st, pos + block, end, block, result1)
             Scanned(f) == Fiber(f, Op222Of(Solver1_BOOL_AND, result, f.value2))
         IN  Scanned(Solver1_FiberScan(st.assignment, pos, pos + block,
                                       Solver1_BOOL_FALSE, <<>>))

\* solver1 Exist::propagate with its closing assertion
Solver1_Exist_propagate(shape, st) ==
    LET range == Shape_positions(shape)
        block == Shape_length(shape, Shape_dimension(shape) - 1)
        Closing(r) ==
            IF r.err # "" THEN r
            ELSE IF r.res # Solver1_Exist_get_status(shape, r.st)
                    /\ r.res # Solver1_BOOL_UNDEF1
                 THEN [r EXCEPT !.err = "ExistCheck"]
                 ELSE r
    IN  Closing(Solver1_ExistLoop(st, range.start, range.end, block, Solver1_BOOL_TRUE))

\* the loop of solver1 Solver::propagate_exists over the exists axioms
RECURSIVE Solver1_ExistsLoop(_, _, _, _)
Solver1_ExistsLoop(exts, st, i, result) ==
    IF i > Len(exts) THEN [st |-> st, res |-> result, err |-> ""]
    ELSE LET Propagated(p) ==
                 IF p.err # "" THEN [st |-> p.st, res |-> result, err |-> p.err]
                 ELSE Solver1_ExistsLoop(exts, p.st, i + 1,
                                         Op222Of(Solver1_BOOL_AND, result, p.res))
         IN  Propagated(Solver1_Exist_propagate(exts[i], st))

\* solver1 Solver::propagate_exists with its closing assertion
Solver1_propagate_exists(exts, st) ==
    LET Closing(r) ==
            IF r.err # "" THEN r
            ELSE IF r.res # Solver1_get_exists_status(exts, r.st)
                    /\ r.res # Solver1_BOOL_UNDEF1
                 THEN [r EXCEPT !.err = "ExistsCheck"]
                 ELSE r
    IN  Closing(Solver1_ExistsLoop(exts, st, 1, Solver1_BOOL_TRUE))

\* one pass through the body of the inner loop of solver1 Solver::search_all:
\* propagate_clauses, then propagate_exists unless the clauses have
\* propagated or failed; again says whether the loop goes round once more
Solver1_Sweep(clas, exts, st, used_exists) ==
    LET Exists(c, x) ==
            [clauses |-> c.clauses, st |-> x.st,
             value |-> Op222Of(Solver1_BOOL_AND, c.res, x.res),
             used_exists |-> TRUE,
             again |-> x.err = ""
                           /\ Op222Of(Solver1_BOOL_AND, c.res, x.res) = Solver1_BOOL_UNDEF1,
             err |-> x.err]
        Clauses(c) ==
            IF c.err # "" \/ c.res \in {Solver1_BOOL_UNDEF1, Solver1_BOOL_FALSE}
            THEN [clauses |-> c.clauses, st |-> c.st, value |-> c.res,
                  used_exists |-> used_exists,
                  again |-> c.err = "" /\ c.res = Solver1_BOOL_UNDEF1, err |-> c.err]
            ELSE Exists(c, Solver1_propagate_exists(exts, c.st))
    IN  Clauses(Solver1_propagate_clauses(clas, st))

\* solver1 Solver::evaluate_all
Solver1_evaluate_all(clas, st) ==
    Tuple([i \in 1 .. Len(clas) |-> Solver1_Clause_evaluate(clas[i], st).cla])

\* the inner loop of solver1 Solver::search_all: sweeps until one of them
\* breaks out
RECURSIVE Solver1_SweepsLoop(_, _, _, _)
Solver1_SweepsLoop(clas, exts, st, used_exists) ==
    LET Swept(r) ==
            IF r.again THEN Solver1_SweepsLoop(r.clauses, exts, r.st, r.used_exists)
            ELSE r
    IN  Swept(Solver1_Sweep(clas, exts, st, used_exists))

\* solver1 Solver::get_status
Solver1_get_status(clas, exts, st) ==
    Op222Of(Solver1_BOOL_AND, Solver1_get_clauses_status(clas),
            Solver1_get_exists_status(exts, st))

\* variant of the inner loop of solver1 search_all that does not sweep again
\* after a sweep that has propagated
Solver1_propagate_once(clas, st) == Solver1_propagate_clauses(clas, st)

\* the inner loop of solver1 Solver::search_all for a theory without exists
\* axioms (propagate_exists then returns BOOL_TRUE and assigns nothing):
\* sweep again as long as a sweep returns UNDEF1
RECURSIVE Solver1_propagate(_, _)
Solver1_propagate(clas, st) ==
    LET Swept(r) ==
            IF r.err # "" THEN r
            ELSE IF r.res = Solver1_BOOL_UNDEF1 THEN Solver1_propagate(r.clauses, r.st)
            ELSE IF r.res = Solver1_BOOL_FALSE THEN r
            ELSE [r EXCEPT !.res = Op222Of(Solver1_BOOL_AND, r.res, Solver1_BOOL_TRUE)]
    IN  Swept(Solver1_propagate_clauses(clas, st))

\* the state of solver.rs in the encoding of solver1: the cell values
\* FALSE, UNDEF, TRUE become FALSE, UNDEF1, TRUE, a step at a level is a
\* Decision, a step with the positions of a clause is a Clause step
Solver1_cell(val) ==
    IF val = BOOL_FALSE THEN Solver1_BOOL_FALSE
    ELSE IF val = BOOL_TRUE THEN Solver1_BOOL_TRUE
    ELSE Solver1_BOOL_UNDEF1

Solver1_state(st) ==
    [assignment |->
         [data |-> Tuple([w \in 1 .. Len(st.assignment.data) |->
                             Table([k \in Lanes2 |-> Solver1_cell(st.assignment.data[w][k])])]),
          len |-> st.assignment.len],
     steps |-> Tuple([k \in 1 .. Len(st.steps) |->
                  [bvar |-> st.steps[k].bvar,
                   reason |-> IF \E i \in 1 .. Len(st.levels) : st.levels[i] = k - 1
                              THEN <<"Decision">>
                              ELSE IF st.steps[k].reason # <<>>
                                   THEN <<"Clause", st.steps[k].reason>>
                                   ELSE <<"Initial">>]]),
     levels |-> st.levels]

(***************************************************************************)
(* The solver as a state machine.                                          *)
(*   state, domains, variables, clauses, exists: the fields of Solver      *)
(*   pc: "build" while the theory is assembled, then the position inside   *)
(*       search_all ("propagate", "dispatch"), "done" after it returned,   *)
(*       "panic" after a failed assertion                                  *)
(*   val1, val2: the two locals of search_all                              *)
(*   solutions: the assignments search_all has printed as solutions        *)
(*   err: the assertion that failed                                        *)
(*   call: the last operation called and its arguments; for search_all the *)
(*       length of the trail at the call (the forced assignments)          *)
(***************************************************************************)
VARIABLES state, domains, variables, clauses, exists, pc, val1, val2,
          solutions, err, call

vars == <<state, domains, variables, clauses, exists, pc, val1, val2,
          solutions, err, call>>

RECURSIVE CoordsOf(_)
CoordsOf(lengths) ==
    IF lengths = <<>> THEN {<<>>}
    ELSE {<<c>> \o rest : c \in Range0(Head(lengths)), rest \in CoordsOf(Tail(lengths))}

\* the inputs a theory has used up
RECURSIVE ClauseCost(_)
ClauseCost(clas) ==
    IF clas = <<>> THEN 0
    ELSE (IF Head(clas).literals = <<>> THEN 1 ELSE Len(Head(clas).literals))
         + ClauseCost(Tail(clas))

Used == Len(state.steps) + Len(exists) + ClauseCost(clauses)

\* the index lists a literal of a variable with this arity is given: every
\* list of the right length, and one list of each wrong length
IndexInputs(arity) ==
    [1 .. arity -> ClauseVarIds]
    \cup {Tuple([i \in 1 .. k |-> 0]) : k \in Arities \ {arity}}

LiteralInputs ==
    UNION {[sign : BOOLEAN, var : {v}, indices : IndexInputs(Len(variables[v].domains))] :
              v \in 1 .. Len(variables)}

Init ==
    /\ state = State_default
    /\ domains = <<>>
    /\ variables = <<>>
    /\ clauses = <<>>
    /\ exists = <<>>
    /\ pc = "build"
    /\ val1 = EVAL_TRUE
    /\ val2 = EVAL_TRUE
    /\ solutions = <<>>
    /\ err = ""
    /\ call = [op |-> "default"]

Panic(e) == /\ pc' = "panic"
            /\ err' = e

\* Solver::add_domain
AddDomain ==
    /\ pc = "build"
    /\ variables = <<>>
    /\ Len(domains) + Len(variables) < Cardinality(Declarations) - 1
    /\ \E size \in 1 .. MaxSize :
          /\ domains' = Append(domains, [id |-> Len(domains) + 1, size |-> size])
          /\ call' = [op |-> "add_domain", size |-> size]
    /\ UNCHANGED <<state, variables, clauses, exists, pc, val1, val2, solutions, err>>

\* Solver::add_variable
AddVariable ==
    /\ pc = "build"
    /\ clauses = <<>> /\ exists = <<>>
    /\ Len(domains) + Len(variables) < Cardinality(Declarations)
    /\ \E arity \in Arities : \E doms \in [1 .. arity -> 1 .. Len(domains)] :
          LET r == Variable_new(state, Tuple([i \in 1 .. Len(doms) |-> domains[doms[i]]]))
          IN  /\ Buffer2_len(r.st.assignment) <= MaxCells
              /\ state' = r.st
              /\ variables' = Append(variables, r.variable)
              /\ call' = [op |-> "add_variable", domains |-> doms]
    /\ UNCHANGED <<domains, clauses, exists, pc, val1, val2, solutions, err>>

\* Solver::add_clause
AddClause ==
    /\ pc = "build"
    /\ variables # <<>>
    /\ \E n \in {k \in ClauseLens : Used + k <= MaxInputs /\ Used < MaxInputs} :
       \E literals \in [1 .. n -> LiteralInputs] :
          LET r == Solver_add_clause(variables, literals)
          IN  /\ call' = [op |-> "add_clause", literals |-> literals]
              /\ IF r.err # ""
                 THEN Panic(r.err) /\ UNCHANGED clauses
                 ELSE /\ clauses' = Append(clauses, r.clause[1])
                      /\ UNCHANGED <<pc, err>>
    /\ UNCHANGED <<state, domains, variables, exists, val1, val2, solutions>>

\* Solver::add_exist
AddExist ==
    /\ pc = "build"
    /\ clauses = <<>>
    /\ Used < MaxInputs
    /\ \E v \in 1 .. Len(variables) :
          /\ \A k \in 1 .. Len(exists) : exists[k] # variables[v].shape
          /\ exists' = Append(exists, variables[v].shape)
          /\ call' = [op |-> "add_exist", var |-> v]
    /\ UNCHANGED <<state, domains, variables, clauses, pc, val1, val2, solutions, err>>

\* Solver::set_value
SetValue ==
    /\ pc = "build"
    /\ clauses = <<>> /\ exists = <<>>
    /\ Used < MaxInputs
    /\ \E sign \in BOOLEAN, v \in 1 .. Len(variables) :
       \E coordinates \in CoordsOf(variables[v].shape.lengths) :
          LET pos == Shape_position(variables[v].shape, coordinates)
          IN  /\ call' = [op |-> "set_value", sign |-> sign, var |-> v,
                          coordinates |-> coordinates]
              /\ IF State_assign_ok(state, pos)
                 THEN /\ state' = State_assign(state, pos, sign, <<>>)
                      /\ UNCHANGED <<pc, err>>
                 ELSE Panic("AlreadyAssigned") /\ UNCHANGED state
    /\ UNCHANGED <<domains, variables, clauses, exists, val1, val2, solutions>>

\* Solver::set_equality
SetEquality ==
    /\ pc = "build"
    /\ clauses = <<>> /\ exists = <<>>
    /\ Used < MaxInputs
    /\ \E v \in 1 .. Len(variables) :
          /\ call' = [op |-> "set_equality", var |-> v]
          /\ IF Shape_dimension(variables[v].shape) # 2
             THEN Panic("Dimension") /\ UNCHANGED state
             ELSE LET r == EqualityLoop(state, variables[v].shape, 0)
                  IN  /\ state' = r.st
                      /\ IF r.ok THEN UNCHANGED <<pc, err>> ELSE Panic("AlreadyAssigned")
    /\ UNCHANGED <<domains, variables, clauses, exists, val1, val2, solutions>>

\* Solver::search_all is called
SearchAll ==
    /\ pc = "build"
    /\ pc' = "propagate"
    /\ call' = [op |-> "search_all", forced |-> Len(state.steps)]
    /\ UNCHANGED <<state, domains, variables, clauses, exists, val1, val2, solutions, err>>

\* search_all: let val1 = self.propagate(); let val2 = self.get_exists_status();
Propagate ==
    /\ pc = "propagate"
    /\ \E r \in {Solver_propagate(clauses, state)} :
           /\ clauses' = r.clauses
           /\ state' = r.st
           /\ val1' = r.res
           /\ val2' = Solver_get_exists_status(exists, r.st)
           /\ IF r.err # "" THEN Panic(r.err) ELSE pc' = "dispatch" /\ UNCHANGED err
    /\ UNCHANGED <<domains, variables, exists, solutions, call>>

\* search_all: if val1 == EVAL_FALSE { ...; break; }
Learning ==
    /\ pc = "dispatch"
    /\ val1 = EVAL_FALSE
    /\ clauses' = Solver_evaluate_all(clauses, state)
    /\ pc' = "done"
    /\ UNCHANGED <<state, domains, variables, exists, val1, val2, solutions, err, call>>

\* the call of next_decision that ends the branches "exists" and "solution"
Backtrack ==
    LET r == State_next_decision(state)
    IN  /\ state' = r.st
        /\ IF ~r.ok THEN Panic("NextDecision")
           ELSE /\ pc' = IF r.ret THEN "propagate" ELSE "done"
                /\ UNCHANGED err

\* variant of the exists branch that goes round the loop again without
\* calling next_decision
ExistsRetry ==
    /\ pc = "dispatch"
    /\ val1 # EVAL_FALSE
    /\ val2 = EVAL_FALSE
    /\ clauses' = Solver_evaluate_all(clauses, state)
    /\ pc' = "propagate"
    /\ UNCHANGED <<state, domains, variables, exists, val1, val2, solutions, err, call>>

\* search_all: else if val2 == EVAL_FALSE { ...; next_decision }
ExistsFailed ==
    /\ pc = "dispatch"
    /\ val1 # EVAL_FALSE
    /\ val2 = EVAL_FALSE
    /\ clauses' = Solver_evaluate_all(clauses, state)
    /\ Backtrack
    /\ UNCHANGED <<domains, variables, exists, val1, val2, solutions, call>>

\* search_all: else if val1 == EVAL_TRUE && val2 == EVAL_TRUE { print; next_decision }
Solution ==
    /\ pc = "dispatch"
    /\ val1 = EVAL_TRUE
    /\ val2 = EVAL_TRUE
    /\ solutions' = Append(solutions, Cells(state.assignment))
    /\ Backtrack
    /\ UNCHANGED <<domains, variables, clauses, exists, val1, val2, call>>

\* search_all: else { let ret = make_decision(); assert!(ret); }
Decide ==
    /\ pc = "dispatch"
    /\ val1 # EVAL_FALSE
    /\ val2 # EVAL_FALSE
    /\ ~(val1 = EVAL_TRUE /\ val2 = EVAL_TRUE)
    /\ LET r == State_make_decision(state)
       IN  /\ state' = r.st
           /\ IF r.ret THEN pc' = "propagate" /\ UNCHANGED err
              ELSE Panic("MakeDecision")
    /\ UNCHANGED <<domains, variables, clauses, exists, val1, val2, solutions, call>>

Next ==
    \/ AddDomain
    \/ AddVariable
    \/ AddClause
    \/ AddExist
    \/ SetValue
    \/ SetEquality
    \/ SearchAll
    \/ Propagate
    \/ Learning
    \/ ExistsFailed
    \/ Solution
    \/ Decide

Spec == Init /\ [][Next]_vars

(***************************************************************************)
(* search_all on theories over one domain with two unary predicates p and  *)
(* q: the theory is assembled by add_domain, add_variable, add_clause and  *)
(* add_exist before the first state, with up to two clauses of one or two  *)
(* literals each, so that a clause can become a unit through a cell that   *)
(* another clause has forced.                                              *)
(***************************************************************************)
TheoryLiterals == [sign : BOOLEAN, var : {1, 2}, indices : {<<0>>}]

TheoryClauses == UNION {[1 .. n -> TheoryLiterals] : n \in {1, 2}}

TheoryClauseLists == UNION {[1 .. n -> TheoryClauses] : n \in {0, 1, 2}}

\* the state after add_domain and two add_variable calls
TheoryVariables(dom) ==
    LET First(r1) ==
            LET Second(r2) == [st |-> r2.st, variables |-> <<r1.variable, r2.variable>>]
            IN  Second(Variable_new(r1.st, <<dom>>))
    IN  First(Variable_new(State_default, <<dom>>))

SearchInit ==
    \E size \in 1 .. MaxSize, lists \in TheoryClauseLists, exts \in SUBSET {1, 2} :
        \E t \in {TheoryVariables([id |-> 1, size |-> size])} :
            /\ state = t.st
            /\ domains = <<[id |-> 1, size |-> size]>>
            /\ variables = t.variables
            /\ clauses = Tuple([i \in 1 .. Len(lists) |->
                                   Solver_add_clause(t.variables, lists[i]).clause[1]])
            /\ exists = Tuple([k \in 1 .. Cardinality(exts) |->
                                  t.variables[IF k = 1 /\ 1 \in exts THEN 1 ELSE 2].shape])
            /\ pc = "propagate"
            /\ val1 = EVAL_TRUE
            /\ val2 = EVAL_TRUE
            /\ solutions = <<>>
            /\ err = ""
            /\ call = [op |-> "search_all", forced |-> 0]

SearchNext ==
    \/ Propagate
    \/ Learning
    \/ ExistsFailed
    \/ Solution
    \/ Decide

SearchSpec == SearchInit /\ [][SearchNext]_vars

(***************************************************************************)
(* The buffers on their own, as tests::buffer and tests::fill drive them:  *)
(* a Buffer1 and a Buffer2 of the same length are created by new and       *)
(* written cell by cell, then one of append, set and fill_range is called  *)
(* on both.  state holds the two buffers, call the operation, its          *)
(* arguments and the length it was called at.                              *)
(***************************************************************************)
\* the positions next to a word boundary, and len itself
BufferEdges(len) == {p \in 0 .. len : p % WordCells2 \in {0, 1, WordCells2 - 1}} \cup {len}

\* the lengths append is called with
AppendLens == {0, 1, 3, WordCells2, WordCells1 + 1}

Bit2Values == 0 .. 3

\* buf1a.set(i, a & 1) and buf2a.set(i, a & 3) for every i from pos on, the
\* values a being first, first + step, ...
RECURSIVE BufferWrite(_, _, _, _)
BufferWrite(bufs, pos, first, step) ==
    IF pos >= Buffer2_len(bufs.buf2) THEN bufs
    ELSE BufferWrite([buf1 |-> Buffer1_set(bufs.buf1, pos, (first + step * pos) % 2),
                      buf2 |-> Buffer2_set(bufs.buf2, pos, (first + step * pos) % 4)],
                     pos + 1, first, step)

BufferInit ==
    \E len \in BufferEdges(MaxLen), val \in Bit2Values, step \in {0, 1} :
        /\ state = BufferWrite([buf1 |-> Buffer1_new(len, val % 2),
                                buf2 |-> Buffer2_new(len, val)], 0, val + step, step)
        /\ domains = <<>>
        /\ variables = <<>>
        /\ clauses = <<>>
        /\ exists = <<>>
        /\ pc = "buffer"
        /\ val1 = EVAL_TRUE
        /\ val2 = EVAL_TRUE
        /\ solutions = <<>>
        /\ err = ""
        /\ call = [op |-> "new"]

\* buf1b.append(len, a & 1); buf2b.append(len, a & 3)
BufferAppend ==
    /\ pc = "buffer"
    /\ \E len \in AppendLens, val \in Bit2Values :
          /\ state' = [buf1 |-> Buffer1_append(state.buf1, len, val % 2),
                       buf2 |-> Buffer2_append(state.buf2, len, val)]
          /\ call' = [op |-> "append", len |-> len, val |-> val,
                      at |-> Buffer2_len(state.buf2)]
    /\ pc' = "done"
    /\ UNCHANGED <<domains, variables, clauses, exists, val1, val2, solutions, err>>

\* buf1a.set(pos, a & 1); buf2a.set(pos, a & 3)
BufferSet ==
    /\ pc = "buffer"
    /\ \E pos \in BufferEdges(Buffer2_len(state.buf2)), val \in Bit2Values :
          /\ pos < Buffer2_len(state.buf2)
          /\ state' = [buf1 |-> Buffer1_set(state.buf1, pos, val % 2),
                       buf2 |-> Buffer2_set(state.buf2, pos, val)]
          /\ call' = [op |-> "set", pos |-> pos, val |-> val,
                      at |-> Buffer2_len(state.buf2)]
    /\ pc' = "done"
    /\ UNCHANGED <<domains, variables, clauses, exists, val1, val2, solutions, err>>

\* buf1a.fill_range(start..end, val1); buf2a.fill_range(start..end, val2)
BufferFillRange ==
    /\ pc = "buffer"
    /\ \E start \in BufferEdges(Buffer2_len(state.buf2)),
          end \in BufferEdges(Buffer2_len(state.buf2)), val \in Bit2Values :
          /\ start <= end
          /\ state' = [buf1 |-> Buffer1_fill_range(state.buf1, start, end, val % 2),
                       buf2 |-> Buffer2_fill_range(state.buf2, start, end, val)]
          /\ call' = [op |-> "fill_range", start |-> start, end |-> end, val |-> val,
                      at |-> Buffer2_len(state.buf2)]
    /\ pc' = "done"
    /\ UNCHANGED <<domains, variables, clauses, exists, val1, val2, solutions, err>>

BufferNext ==
    \/ BufferAppend
    \/ BufferSet
    \/ BufferFillRange

BufferSpec == BufferInit /\ [][BufferNext]_vars

(***************************************************************************)
(* The shapes on their own: a shape is created, its view is taken through  *)
(* polymer (which also permutes, drops and identifies axes), and then      *)
(* either simplify is called on it or Buffer2::apply is called with its    *)
(* positions.  state holds the shape, the view, the solver3 shape built by *)
(* the same calls, and the two buffers of apply: self of any length, other *)
(* the table the view points into.                                         *)
(***************************************************************************)
\* the numbers of axes of the shapes
ShapeDimensions == {0, 1, 2, 3}

LengthLists == UNION {[1 .. n -> 0 .. MaxSize] : n \in ShapeDimensions}

\* the maps polymer accepts: same length at both ends of every arrow
PolymerMaps(lengths, new) ==
    {map \in [1 .. Len(lengths) -> Range0(Len(new))] :
        \A i \in 1 .. Len(lengths) : lengths[i] = At(new, map[i])}

ApplyOps == {FOLD_POS, FOLD_NEG, EVAL_AND}

\* buf.set(pos, a & 3) for every pos from pos on, a being first + step * pos
RECURSIVE WriteCells(_, _, _, _)
WriteCells(buf, pos, first, step) ==
    IF pos >= Buffer2_len(buf) THEN buf
    ELSE WriteCells(Buffer2_set(buf, pos, (first + step * pos) % 4), pos + 1, first, step)

ShapeInit ==
    \E lengths \in LengthLists, new \in LengthLists, offset \in {0, 1},
       len \in 0 .. MaxCells :
        \E map \in PolymerMaps(lengths, new) :
            /\ state =
                   [shape |-> Shape_new(lengths, offset),
                    view |-> ShapeView_polymer(ShapeView_new(Shape_new(lengths, offset)),
                                               Shape_new(new, 0), map),
                    shape3 |-> Solver3_Shape_polymer(Solver3_Shape_new(lengths, offset),
                                                     new, map),
                    self |-> WriteCells(Buffer2_new(len, EVAL_TRUE), 0, 1, 3),
                    other |-> WriteCells(Buffer2_new(offset + Product(lengths),
                                                     BOOL_UNDEF), 0, 0, 1)]
            /\ domains = <<>>
            /\ variables = <<>>
            /\ clauses = <<>>
            /\ exists = <<>>
            /\ pc = "shape"
            /\ val1 = EVAL_TRUE
            /\ val2 = EVAL_TRUE
            /\ solutions = <<>>
            /\ err = ""
            /\ call = [op |-> "polymer"]

\* view.simplify() and the same call on the solver3 shape
ShapeSimplify ==
    /\ pc = "shape"
    /\ state' = [simple |-> ShapeView_simplify(state.view),
                 simple3 |-> Solver3_Shape_simplify(state.shape3)] @@ state
    /\ call' = [op |-> "simplify"]
    /\ pc' = "simplified"
    /\ UNCHANGED <<domains, variables, clauses, exists, val1, val2, solutions, err>>

\* self.apply(op, &other, &mut view.positions())
ShapeApply ==
    /\ pc = "shape"
    /\ \E op \in ApplyOps :
          \E r \in {Buffer2_apply(state.self, op, state.other,
                                  ShapeView_positions(state.view))} :
              /\ state' = [state EXCEPT !.self = r.buf]
              /\ call' = [op |-> "apply", table |-> op]
              /\ IF r.ok THEN pc' = "applied" /\ UNCHANGED err
                 ELSE Panic("ApplyLength")
    /\ UNCHANGED <<domains, variables, clauses, exists, val1, val2, solutions>>

\* the maps permute is called with: the permutations of the axes, and the
\* map that sends every axis to axis 0
PermuteMaps(n) ==
    {map \in [1 .. n -> Range0(n)] :
        \/ \A i, j \in 1 .. n : map[i] = map[j] => i = j
        \/ \A i \in 1 .. n : map[i] = 0}

\* view.permute(map) and the same call on the solver3 shape
ShapePermute ==
    /\ pc = "shape"
    /\ \E map \in PermuteMaps(Len(state.view.strides)) :
          \E r \in {ShapeView_permute(state.view, map)},
             r3 \in {Solver3_Shape_permute(state.shape3, map)} :
              /\ call' = [op |-> "permute", map |-> map]
              /\ IF r.ok /\ r3.ok
                 THEN /\ state' = [permuted |-> r.view, permuted3 |-> r3.shape] @@ state
                      /\ pc' = "permuted"
                      /\ UNCHANGED err
                 ELSE /\ UNCHANGED state
                      /\ Panic("PermuteMap")
    /\ UNCHANGED <<domains, variables, clauses, exists, val1, val2, solutions>>

ShapeNext ==
    \/ ShapeSimplify
    \/ ShapeApply
    \/ ShapePermute

ShapeSpec == ShapeInit /\ [][ShapeNext]_vars

(***************************************************************************)
(* The views and their iterator: a shape and its canonical view are made,  *)
(* polymer may be called on the view (and on the solver3 shape) with any   *)
(* lengths and map, then positions() makes the iterator, and next and      *)
(* reset are called on it in any order.  state.yielded holds what next has *)
(* returned since the iterator was made or last reset, state.resets where  *)
(* the last reset found the iterator: <<>> when reset was never called,    *)
(* else at the start, in the middle or at the end (exhausted).             *)
(***************************************************************************)
ViewInit ==
    \E lengths \in LengthLists, offset \in {0, 1} :
        /\ state = [shape |-> Shape_new(lengths, offset),
                    view |-> ShapeView_new(Shape_new(lengths, offset)),
                    shape3 |-> Solver3_Shape_new(lengths, offset)]
        /\ domains = <<>>
        /\ variables = <<>>
        /\ clauses = <<>>
        /\ exists = <<>>
        /\ pc = "view"
        /\ val1 = EVAL_TRUE
        /\ val2 = EVAL_TRUE
        /\ solutions = <<>>
        /\ err = ""
        /\ call = [op |-> "new"]

\* view.polymer(&Shape::new(lengths, 0), map) and the same call on the
\* solver3 shape
ViewPolymer ==
    /\ pc = "view"
    /\ \E lengths \in LengthLists :
          \E map \in [1 .. Len(state.view.strides) -> Range0(Len(lengths))] :
              /\ call' = [op |-> "polymer", lengths |-> lengths, map |-> map]
              /\ IF Polymer_ok(state.view.strides, lengths, map)
                 THEN /\ state' = [state EXCEPT
                             !.view = ShapeView_polymer(@, Shape_new(lengths, 0), map),
                             !.shape3 = Solver3_Shape_polymer(@, lengths, map)]
                      /\ pc' = "polymer"
                      /\ UNCHANGED err
                 ELSE /\ UNCHANGED state
                      /\ Panic("PolymerLength")
    /\ UNCHANGED <<domains, variables, clauses, exists, val1, val2, solutions>>

\* view.positions()
ViewPositions ==
    /\ pc \in {"view", "polymer"}
    /\ state' = [iter |-> ShapeView_positions(state.view), yielded |-> <<>>,
                 resets |-> <<>>] @@ state
    /\ call' = [op |-> "positions"]
    /\ pc' = "iter"
    /\ UNCHANGED <<domains, variables, clauses, exists, val1, val2, solutions, err>>

\* iter.next()
IterNext ==
    /\ pc = "iter"
    /\ \E r \in {ShapeIter_next(state.iter)} :
          /\ state' = [state EXCEPT !.iter = r.iter, !.yielded = @ \o r.item]
          /\ call' = [op |-> "next", item |-> r.item]
    /\ UNCHANGED <<domains, variables, clauses, exists, pc, val1, val2, solutions, err>>

\* iter.reset()
IterReset ==
    /\ pc = "iter"
    /\ state' = [state EXCEPT
              !.iter = ShapeIter_reset(@),
              !.yielded = <<>>,
              !.resets = IF state.iter.done THEN <<"end">>
                         ELSE IF state.yielded = <<>> THEN <<"start">>
                         ELSE <<"middle">>]
    /\ call' = [op |-> "reset", at |-> Len(state.yielded), done |-> state.iter.done]
    /\ UNCHANGED <<domains, variables, clauses, exists, pc, val1, val2, solutions, err>>

ViewNext ==
    \/ ViewPolymer
    \/ ViewPositions
    \/ IterNext
    \/ IterReset

ViewSpec == ViewInit /\ [][ViewNext]_vars

(***************************************************************************)
(* One clause on its own: a domain, a unary predicate p and a binary        *)
(* predicate r are declared, cells are set by set_value, a clause is added  *)
(* by add_clause, and then the clause is evaluated and propagated as        *)
(* Solver::propagate does for each clause.  state holds the State st and    *)
(* the Clause clause of solver.rs, and st1 and clause1, the same for        *)
(* solver1; the buffers start fresh or, as always for the larger domain,    *)
(* with the content an earlier evaluation has left.                         *)
(***************************************************************************)
ClauseSizes == {1, 2}

ClauseLiterals ==
    [sign : BOOLEAN, var : {1}, indices : {<<0>>, <<1>>}]
        \cup [sign : BOOLEAN, var : {2}, indices : {<<0, 1>>, <<1, 0>>, <<0, 0>>}]

\* the numbers of literals of the clause
ClauseLiteralCounts(size) == IF size = 1 THEN {1, 2, 3} ELSE {1, 2}

\* the state after add_domain, add_variable p(dom) and add_variable r(dom, dom)
ClauseVariables(dom) ==
    LET First(r1) ==
            LET Second(r2) == [st |-> r2.st, variables |-> <<r1.variable, r2.variable>>]
            IN  Second(Variable_new(r1.st, <<dom, dom>>))
    IN  First(Variable_new(State_default, <<dom>>))

\* set_value for every cell from pos on whose value is not UNDEF
RECURSIVE SetValues(_, _, _)
SetValues(st, values, pos) ==
    IF pos >= Len(values) THEN st
    ELSE IF At(values, pos) = BOOL_UNDEF \/ ~State_assign_ok(st, pos)
         THEN SetValues(st, values, pos + 1)
         ELSE SetValues(State_assign(st, pos, At(values, pos) = BOOL_TRUE, <<>>),
                        values, pos + 1)

\* the same calls on the solver of solver1, whose cells start as UNDEF1
RECURSIVE Solver1_SetValues(_, _, _)
Solver1_SetValues(st, values, pos) ==
    IF pos >= Len(values) THEN st
    ELSE IF At(values, pos) = BOOL_UNDEF \/ ~Solver1_State_assign_ok(st, pos)
         THEN Solver1_SetValues(st, values, pos + 1)
         ELSE Solver1_SetValues(
                  Solver1_State_assign(st, pos, At(values, pos) = BOOL_TRUE, <<"Initial">>),
                  values, pos + 1)

ClauseInit ==
    \E size \in ClauseSizes :
        \E n \in ClauseLiteralCounts(size),
           stale \in (IF size = 1 THEN BOOLEAN ELSE {TRUE}),
           values \in [1 .. (size + size * size) -> {BOOL_FALSE, BOOL_UNDEF, BOOL_TRUE}] :
            \E literals \in [1 .. n -> ClauseLiterals],
               t \in {ClauseVariables([id |-> 1, size |-> size])} :
                \E added \in {Solver_add_clause(t.variables, literals)} :
                    /\ added.err = ""
                    /\ state =
                           [st |-> SetValues(t.st, values, 0),
                            st1 |-> Solver1_SetValues(
                                        [t.st EXCEPT !.assignment =
                                            Buffer2_new(Buffer2_len(@), Solver1_BOOL_UNDEF1)],
                                        values, 0),
                            clause |-> IF stale
                                       THEN [added.clause[1] EXCEPT
                                                !.buffer = WriteCells(@, 0, 1, 3)]
                                       ELSE added.clause[1],
                            clause1 |-> IF stale
                                        THEN [added.clause[1] EXCEPT
                                                 !.buffer = WriteCells(@, 0, 1, 3)]
                                        ELSE added.clause[1]]
                    /\ domains = <<[id |-> 1, size |-> size]>>
                    /\ variables = t.variables
                    /\ clauses = <<>>
                    /\ exists = <<>>
                    /\ pc = "clause"
                    /\ val1 = EVAL_TRUE
                    /\ val2 = EVAL_TRUE
                    /\ solutions = <<>>
                    /\ err = ""
                    /\ call = [op |-> "add_clause"]

\* cla.evaluate(&self.state), in solver.rs and in solver1
ClauseEvaluate ==
    /\ pc = "clause"
    /\ \E r \in {Clause_evaluate(state.clause, state.st)},
          r1 \in {Solver1_Clause_evaluate(state.clause1, state.st1)} :
          /\ state' = [state EXCEPT !.clause = r.cla, !.clause1 = r1.cla]
          /\ IF r.ok /\ r1.ok THEN pc' = "evaluated" /\ UNCHANGED err
             ELSE Panic("ApplyLength")
    /\ call' = [op |-> "evaluate"]
    /\ UNCHANGED <<domains, variables, clauses, exists, val1, val2, solutions>>

\* cla.propagate(&mut self.state), in solver.rs and in solver1; the states
\* the calls found are kept as before and before1
ClausePropagate ==
    /\ pc = "evaluated"
    /\ \E r \in {Clause_propagate(state.clause, state.st)},
          r1 \in {Solver1_Clause_propagate(state.clause1, state.st1)} :
          /\ state' = [before |-> state.st, before1 |-> state.st1]
                          @@ [state EXCEPT !.st = r.st, !.st1 = r1.st]
          /\ call' = [op |-> "propagate", res |-> r.res, res1 |-> r1.res]
          /\ IF r.err = "" /\ r1.err = "" THEN pc' = "propagated" /\ UNCHANGED err
             ELSE Panic(IF r.err # "" THEN r.err ELSE r1.err)
    /\ UNCHANGED <<domains, variables, clauses, exists, val1, val2, solutions>>

ClauseNext ==
    \/ ClauseEvaluate
    \/ ClausePropagate

ClauseSpec == ClauseInit /\ [][ClauseNext]_vars

(***************************************************************************)
(* The operator tables on their own, as tests::laws of bitops.rs and of    *)
(* solver1/bitops.rs exercise them: three 2-bit values are drawn and one   *)
(* of the checks is evaluated on them with Op222::of and Op22::of.  state  *)
(* holds the values, call the results of the evaluation.                   *)
(***************************************************************************)
\* the tables the law helpers are called with, by name
LawTables ==
    [BOOL_AND |-> BOOL_AND, BOOL_OR |-> BOOL_OR, EVAL_AND |-> EVAL_AND,
     FOLD_POS |-> FOLD_POS, Solver1_BOOL_AND |-> Solver1_BOOL_AND,
     Solver1_BOOL_OR |-> Solver1_BOOL_OR]

BitopsInit ==
    \E a \in Bit2Values, b \in Bit2Values, c \in Bit2Values :
        /\ state = [a |-> a, b |-> b, c |-> c]
        /\ domains = <<>>
        /\ variables = <<>>
        /\ clauses = <<>>
        /\ exists = <<>>
        /\ pc = "bitops"
        /\ val1 = EVAL_TRUE
        /\ val2 = EVAL_TRUE
        /\ solutions = <<>>
        /\ err = ""
        /\ call = [op |-> "new"]

\* the terms of idempotent(op), commutative(op) and associative(op), and of
\* the last loop of tests::laws (op.of(op.of(a, b), c) against
\* op.of(op.of(a, c), b))
LawsOf(op, a, b, c) ==
    [aa |-> Op222Of(op, a, a),
     ab |-> Op222Of(op, a, b),
     ba |-> Op222Of(op, b, a),
     ab_c |-> Op222Of(op, Op222Of(op, a, b), c),
     a_bc |-> Op222Of(op, a, Op222Of(op, b, c)),
     ac_b |-> Op222Of(op, Op222Of(op, a, c), b)]

BitopsLaws ==
    /\ pc = "bitops"
    /\ \E name \in DOMAIN LawTables :
          call' = [op |-> name] @@ LawsOf(LawTables[name], state.a, state.b, state.c)
    /\ pc' = "laws"
    /\ UNCHANGED <<state, domains, variables, clauses, exists, val1, val2,
                   solutions, err>>

\* FOLD_POS.of(a, b) against FOLD_NEG.of(a, BOOL_NOT.of(b))
BitopsFold ==
    /\ pc = "bitops"
    /\ call' = [op |-> "fold",
                pos |-> Op222Of(FOLD_POS, state.a, state.b),
                neg |-> Op222Of(FOLD_NEG, state.a, Op22Of(BOOL_NOT, state.b))]
    /\ pc' = "laws"
    /\ UNCHANGED <<state, domains, variables, clauses, exists, val1, val2,
                   solutions, err>>

\* distributive(op1, op2): op1.of(a, op2.of(b, c)) against
\* op2.of(op1.of(a, b), op1.of(a, c))
Distributive(op1, op2, a, b, c) ==
    [left |-> Op222Of(op1, a, Op222Of(op2, b, c)),
     right |-> Op222Of(op2, Op222Of(op1, a, b), Op222Of(op1, a, c))]

BitopsDistributive ==
    /\ pc = "bitops"
    /\ \E pair \in {<<"BOOL_OR", "BOOL_AND">>, <<"Solver1_BOOL_OR", "Solver1_BOOL_AND">>} :
          call' = [op |-> "distributive", op1 |-> pair[1], op2 |-> pair[2]]
                  @@ Distributive(LawTables[pair[1]], LawTables[pair[2]],
                                  state.a, state.b, state.c)
    /\ pc' = "laws"
    /\ UNCHANGED <<state, domains, variables, clauses, exists, val1, val2,
                   solutions, err>>

BitopsNext ==
    \/ BitopsLaws
    \/ BitopsFold
    \/ BitopsDistributive

BitopsSpec == BitopsInit /\ [][BitopsNext]_vars

(***************************************************************************)
(* The State of solver.rs on its own: a table of UNDEF cells, then any     *)
(* sequence of assign, make_decision and next_decision calls.  call holds  *)
(* the last call and what it returned, for next_decision also the number   *)
(* of levels it was called with.                                           *)
(***************************************************************************)
\* the reasons assign is called with: none (set_value) or the other
\* positions of a clause
StateReasons == {<<>>, <<0>>}

StateInit ==
    \E n \in 1 .. MaxCells :
        /\ state = State_create_table(State_default, <<n>>).st
        /\ domains = <<>>
        /\ variables = <<>>
        /\ clauses = <<>>
        /\ exists = <<>>
        /\ pc = "state"
        /\ val1 = EVAL_TRUE
        /\ val2 = EVAL_TRUE
        /\ solutions = <<>>
        /\ err = ""
        /\ call = [op |-> "create_table"]

\* State::assign
StateAssign ==
    /\ pc = "state"
    /\ \E pos \in Range0(Buffer2_len(state.assignment)), sign \in BOOLEAN,
          reason \in StateReasons :
          /\ call' = [op |-> "assign", pos |-> pos, sign |-> sign]
          /\ IF State_assign_ok(state, pos)
             THEN /\ state' = State_assign(state, pos, sign, reason)
                  /\ UNCHANGED <<pc, err>>
             ELSE Panic("AlreadyAssigned") /\ UNCHANGED state
    /\ UNCHANGED <<domains, variables, clauses, exists, val1, val2, solutions>>

\* State::make_decision
StateMakeDecision ==
    /\ pc = "state"
    /\ \E r \in {State_make_decision(state)} :
          /\ state' = r.st
          /\ call' = [op |-> "make_decision", ret |-> r.ret]
    /\ UNCHANGED <<domains, variables, clauses, exists, pc, val1, val2, solutions, err>>

\* State::next_decision
StateNextDecision ==
    /\ pc = "state"
    /\ \E r \in {State_next_decision(state)} :
          /\ state' = r.st
          /\ call' = [op |-> "next_decision", ret |-> r.ret, levels |-> Len(state.levels)]
          /\ IF r.ok THEN UNCHANGED <<pc, err>> ELSE Panic("NextDecision")
    /\ UNCHANGED <<domains, variables, clauses, exists, val1, val2, solutions>>

StateNext ==
    \/ StateAssign
    \/ StateMakeDecision
    \/ StateNextDecision

StateSpec == StateInit /\ [][StateNext]_vars

(***************************************************************************)
(* The State of solver1 on its own: a table of UNDEF1 cells, then any      *)
(* sequence of assign, make_decision and next_decision calls.  state holds *)
(* the solver1 State, call the last call and what it returned.             *)
(***************************************************************************)
\* the reasons assign is called with
State1Reasons == {<<"Initial">>, <<"Clause", <<>>>>}

State1Init ==
    \E n \in 1 .. MaxCells :
        /\ state = [State_default EXCEPT
                        !.assignment = Buffer2_append(@, n, Solver1_BOOL_UNDEF1)]
        /\ domains = <<>>
        /\ variables = <<>>
        /\ clauses = <<>>
        /\ exists = <<>>
        /\ pc = "state1"
        /\ val1 = EVAL_TRUE
        /\ val2 = EVAL_TRUE
        /\ solutions = <<>>
        /\ err = ""
        /\ call = [op |-> "create_table"]

\* solver1 State::assign
State1Assign ==
    /\ pc = "state1"
    /\ \E pos \in Range0(Buffer2_len(state.assignment)), sign \in BOOLEAN,
          reason \in State1Reasons :
          /\ call' = [op |-> "assign", pos |-> pos, sign |-> sign]
          /\ IF Solver1_State_assign_ok(state, pos)
             THEN /\ state' = Solver1_State_assign(state, pos, sign, reason)
                  /\ UNCHANGED <<pc, err>>
             ELSE Panic("AlreadyAssigned") /\ UNCHANGED state
    /\ UNCHANGED <<domains, variables, clauses, exists, val1, val2, solutions>>

\* solver1 State::make_decision
State1MakeDecision ==
    /\ pc = "state1"
    /\ \E r \in {Solver1_State_make_decision(state)} :
          /\ state' = r.st
          /\ call' = [op |-> "make_decision", ret |-> r.ret]
    /\ UNCHANGED <<domains, variables, clauses, exists, pc, val1, val2, solutions, err>>

\* solver1 State::next_decision
State1NextDecision ==
    /\ pc = "state1"
    /\ \E r \in {Solver1_State_next_decision(state)} :
          /\ state' = r.st
          /\ call' = [op |-> "next_decision", ret |-> r.ret]
          /\ IF r.ok THEN UNCHANGED <<pc, err>> ELSE Panic("NextDecision")
    /\ UNCHANGED <<domains, variables, clauses, exists, val1, val2, solutions>>

State1Next ==
    \/ State1Assign
    \/ State1MakeDecision
    \/ State1NextDecision

State1Spec == State1Init /\ [][State1Next]_vars

(***************************************************************************)
(* The exists axioms on their own.  A unary predicate q over a domain of   *)
(* size 2 and a predicate p with one of the shapes below are added, their  *)
(* cells are given any values by set_value, and exists axioms are added    *)
(* for p, or for both in either order.  Then Exist::get_status is called   *)
(* on one axiom, in solver.rs and in solver1, or propagate_exists of       *)
(* solver1 is called (solver.rs has no propagation for exists axioms).     *)
(* state holds the State of solver.rs (st) and of solver1 (st1).           *)
(***************************************************************************)
ExistLengths == {<<1>>, <<2>>, <<3>>, <<1, 2>>, <<2, 1>>, <<2, 2>>}

\* the state after add_variable q and add_variable p with these domains
ExistVariables(doms) ==
    LET First(r1) ==
            LET Second(r2) == [st |-> r2.st, variables |-> <<r1.variable, r2.variable>>]
            IN  Second(Variable_new(r1.st, doms))
    IN  First(Variable_new(State_default, <<[id |-> 0, size |-> 2]>>))

ExistInit ==
    \E lengths \in ExistLengths, order \in {<<2>>, <<1, 2>>, <<2, 1>>} :
        \E values \in [1 .. (2 + Product(lengths)) -> {BOOL_FALSE, BOOL_UNDEF, BOOL_TRUE}],
           t \in {ExistVariables(Tuple([i \in 1 .. Len(lengths) |->
                                           [id |-> i, size |-> lengths[i]]]))} :
            /\ state = [st |-> SetValues(t.st, values, 0),
                        st1 |-> Solver1_SetValues(
                                    [t.st EXCEPT !.assignment =
                                        Buffer2_new(Buffer2_len(@), Solver1_BOOL_UNDEF1)],
                                    values, 0)]
            /\ domains = <<[id |-> 0, size |-> 2]>>
                             \o Tuple([i \in 1 .. Len(lengths) |->
                                          [id |-> i, size |-> lengths[i]]])
            /\ variables = t.variables
            /\ clauses = <<>>
            /\ exists = Tuple([k \in 1 .. Len(order) |-> t.variables[order[k]].shape])
            /\ pc = "exist"
            /\ val1 = EVAL_TRUE
            /\ val2 = EVAL_TRUE
            /\ solutions = <<>>
            /\ err = ""
            /\ call = [op |-> "add_exist"]

\* ext.get_status(&self.state) for one of the axioms, in solver.rs and in
\* solver1
ExistGetStatus ==
    /\ pc = "exist"
    /\ \E k \in 1 .. Len(exists) :
          call' = [op |-> "get_status", exist |-> k,
                   res |-> Exist_get_status(exists[k], state.st),
                   res1 |-> Solver1_Exist_get_status(exists[k], state.st1)]
    /\ pc' = "status"
    /\ UNCHANGED <<state, domains, variables, clauses, exists, val1, val2, solutions, err>>

\* solver1 Solver::propagate_exists; the state the call found is kept as
\* before1
ExistPropagate ==
    /\ pc = "exist"
    /\ \E r \in {Solver1_propagate_exists(exists, state.st1)} :
          /\ state' = [before1 |-> state.st1] @@ [state EXCEPT !.st1 = r.st]
          /\ call' = [op |-> "propagate_exists", res1 |-> r.res]
          /\ IF r.err = "" THEN pc' = "propagated" /\ UNCHANGED err
             ELSE Panic(r.err)
    /\ UNCHANGED <<domains, variables, clauses, exists, val1, val2, solutions>>

ExistNext ==
    \/ ExistGetStatus
    \/ ExistPropagate

ExistSpec == ExistInit /\ [][ExistNext]_vars

(***************************************************************************)
(* Propagation to the fixpoint, one pass of the loop at a time.  A theory  *)
(* over the unary predicates p and q, with one or two clauses and with or  *)
(* without an exists axiom for p, is given any assignment of its cells by  *)
(* set_value.  First the while loop of Solver::propagate runs on it, one   *)
(* clause visit per step (pc = "visit"), then the inner loop of solver1's  *)
(* search_all, one sweep per step (pc = "sweep"), until pc = "fixpoint".   *)
(* state holds the State of solver.rs (st) with the loop variables num,    *)
(* res and idx, and the State of solver1 (st1) with its clauses and the    *)
(* loop variables value and used_exists; clauses are those of solver.rs.   *)
(***************************************************************************)
FixpointSizes == {1, 2}

FixpointInit ==
    \E size \in FixpointSizes, lists \in TheoryClauseLists, exts \in {<<>>, <<1>>} :
        \E values \in [1 .. (2 * size) -> {BOOL_FALSE, BOOL_UNDEF, BOOL_TRUE}],
           t \in {TheoryVariables([id |-> 1, size |-> size])} :
            /\ lists # <<>>
            /\ clauses = Tuple([i \in 1 .. Len(lists) |->
                                   Solver_add_clause(t.variables, lists[i]).clause[1]])
            /\ state = [st |-> SetValues(t.st, values, 0),
                        num |-> 0, res |-> EVAL_TRUE, idx |-> 0,
                        st1 |-> Solver1_SetValues(
                                    [t.st EXCEPT !.assignment =
                                        Buffer2_new(Buffer2_len(@), Solver1_BOOL_UNDEF1)],
                                    values, 0),
                        clauses1 |-> Tuple([i \in 1 .. Len(lists) |->
                                       Solver_add_clause(t.variables, lists[i]).clause[1]]),
                        value |-> Solver1_BOOL_TRUE, used_exists |-> FALSE]
            /\ domains = <<[id |-> 1, size |-> size]>>
            /\ variables = t.variables
            /\ exists = Tuple([k \in 1 .. Len(exts) |-> t.variables[exts[k]].shape])
            /\ pc = "visit"
            /\ val1 = EVAL_TRUE
            /\ val2 = EVAL_TRUE
            /\ solutions = <<>>
            /\ err = ""
            /\ call = [op |-> "propagate"]

\* Solver::propagate: one pass of `while num < self.clauses.len()`, and the
\* two assertions behind the loop when it is left
Visit ==
    /\ pc = "visit"
    /\ \E r \in {PropagateVisit(clauses, state.st, state.num, state.res, state.idx)} :
          /\ clauses' = r.clauses
          /\ state' = [state EXCEPT !.st = r.st, !.num = r.num, !.res = r.res,
                                    !.idx = r.idx]
          /\ call' = [op |-> "visit", val |-> r.val,
                      assigned |-> Len(r.st.steps) - Len(state.st.steps)]
          /\ IF r.err # "" THEN Panic(r.err)
             ELSE IF ~r.brk /\ r.num < Len(clauses) THEN UNCHANGED <<pc, err>>
             ELSE IF r.res = EVAL_UNIT \/ r.res # Solver_get_clauses_status(r.clauses)
                  THEN Panic("PropagateStatus")
                  ELSE pc' = "sweep" /\ UNCHANGED err
    /\ UNCHANGED <<domains, variables, exists, val1, val2, solutions>>

\* solver1 search_all: one pass of the inner loop, and the assertion behind
\* the loop when it is left
Sweep ==
    /\ pc = "sweep"
    /\ \E r \in {Solver1_Sweep(state.clauses1, exists, state.st1, state.used_exists)} :
          /\ state' = [state EXCEPT !.st1 = r.st, !.clauses1 = r.clauses,
                                    !.value = r.value, !.used_exists = r.used_exists]
          /\ call' = [op |-> "sweep", value |-> r.value,
                      assigned |-> Len(r.st.steps) - Len(state.st1.steps)]
          /\ IF r.err # "" THEN Panic(r.err)
             ELSE IF r.again THEN UNCHANGED <<pc, err>>
             ELSE IF r.value = Solver1_BOOL_UNDEF1
                     \/ r.value # Op222Of(Solver1_BOOL_AND,
                                          Solver1_get_clauses_status(r.clauses),
                                          Solver1_get_exists_status(exists, r.st))
                  THEN Panic("SearchStatus")
                  ELSE pc' = "fixpoint" /\ UNCHANGED err
    /\ UNCHANGED <<domains, variables, clauses, exists, val1, val2, solutions>>

FixpointNext ==
    \/ Visit
    \/ Sweep

FixpointSpec == FixpointInit /\ [][FixpointNext]_vars

(***************************************************************************)
(* search_all of solver.rs and then search_all of solver1 on the same      *)
(* theory.  The run of solver.rs is that of SearchSpec; when it has        *)
(* returned, the solver of solver1 is built for the same theory (state is  *)
(* then its State, in the cell encoding of solver1, val1 the local value   *)
(* and val2 the local used_exists of its search_all, solutions the         *)
(* assignments that reach its solution branch) and runs through            *)
(* "propagate1" and "dispatch1" to "done1".                                *)
(***************************************************************************)
\* the solver of solver1 is built and its search_all is called
Search1All ==
    /\ pc = "done"
    /\ state' = [assignment |-> Buffer2_new(Buffer2_len(state.assignment),
                                            Solver1_BOOL_UNDEF1),
                 steps |-> <<>>, levels |-> <<>>]
    /\ clauses' = Tuple([i \in 1 .. Len(clauses) |->
                            [clauses[i] EXCEPT !.buffer = Buffer2_fill(@, Solver1_BOOL_FALSE)]])
    /\ solutions' = <<>>
    /\ val1' = Solver1_BOOL_TRUE
    /\ val2' = FALSE
    /\ pc' = "propagate1"
    /\ call' = [op |-> "search_all1", forced |-> 0]
    /\ UNCHANGED <<domains, variables, exists, err>>

\* solver1 search_all: the inner loop and the assertion behind it
Propagate1 ==
    /\ pc = "propagate1"
    /\ \E r \in {Solver1_SweepsLoop(clauses, exists, state, FALSE)} :
           /\ clauses' = r.clauses
           /\ state' = r.st
           /\ val1' = r.value
           /\ val2' = r.used_exists
           /\ IF r.err # "" THEN Panic(r.err)
              ELSE IF r.value = Solver1_BOOL_UNDEF1
                      \/ r.value # Solver1_get_status(r.clauses, exists, r.st)
                   THEN Panic("SearchStatus")
                   ELSE pc' = "dispatch1" /\ UNCHANGED err
    /\ UNCHANGED <<domains, variables, exists, solutions, call>>

\* solver1 search_all: if value == BOOL_FALSE && !used_exists { ...; break; }
Learning1 ==
    /\ pc = "dispatch1"
    /\ val1 = Solver1_BOOL_FALSE /\ ~val2
    /\ clauses' = Solver1_evaluate_all(clauses, state)
    /\ pc' = "done1"
    /\ UNCHANGED <<state, domains, variables, exists, val1, val2, solutions, err, call>>

\* if !self.state.next_decision() { break; }
Backtrack1 ==
    LET r == Solver1_State_next_decision(state)
    IN  /\ state' = r.st
        /\ IF ~r.ok THEN Panic("NextDecision")
           ELSE /\ pc' = IF r.ret THEN "propagate1" ELSE "done1"
                /\ UNCHANGED err

\* solver1 search_all: else if value == BOOL_FALSE && used_exists
Exists1Failed ==
    /\ pc = "dispatch1"
    /\ val1 = Solver1_BOOL_FALSE /\ val2
    /\ clauses' = Solver1_evaluate_all(clauses, state)
    /\ Backtrack1
    /\ UNCHANGED <<domains, variables, exists, val1, val2, solutions, call>>

\* solver1 search_all: else if value == BOOL_TRUE
Solution1 ==
    /\ pc = "dispatch1"
    /\ val1 = Solver1_BOOL_TRUE
    /\ solutions' = Append(solutions, Cells(state.assignment))
    /\ Backtrack1
    /\ UNCHANGED <<domains, variables, clauses, exists, val1, val2, call>>

\* solver1 search_all: else { assert_eq!(value, BOOL_UNDEF2); make_decision; assert!(ret) }
Decide1 ==
    /\ pc = "dispatch1"
    /\ val1 \notin {Solver1_BOOL_FALSE, Solver1_BOOL_TRUE}
    /\ LET r == Solver1_State_make_decision(state)
       IN  IF val1 # Solver1_BOOL_UNDEF2 THEN Panic("Undef2") /\ UNCHANGED state
           ELSE /\ state' = r.st
                /\ IF r.ret THEN pc' = "propagate1" /\ UNCHANGED err
                   ELSE Panic("MakeDecision")
    /\ UNCHANGED <<domains, variables, clauses, exists, val1, val2, solutions, call>>

Search1Next ==
    \/ Propagate
    \/ Learning
    \/ ExistsFailed
    \/ Solution
    \/ Decide
    \/ Search1All
    \/ Propagate1
    \/ Learning1
    \/ Exists1Failed
    \/ Solution1
    \/ Decide1

Search1Spec == SearchInit /\ [][Search1Next]_vars

(***************************************************************************)
(* The semantics of a theory, for stating the properties.  cells is a      *)
(* sequence of BOOL_ values, one for every ground atom.                    *)
(***************************************************************************)
LiteralTrue(lit, coordinates, cells) ==
    cells[Literal_position(lit, coordinates) + 1]
        = IF lit.sign THEN BOOL_TRUE ELSE BOOL_FALSE

\* every ground instance of the clause has a true literal
ClauseHolds(cla, cells) ==
    \A coordinates \in CoordsOf(cla.shape.lengths) :
        \E i \in 1 .. Len(cla.literals) : LiteralTrue(cla.literals[i], coordinates, cells)

\* every last-axis fiber of the predicate has a TRUE cell
ExistHolds(shape, cells) ==
    \A coordinates \in CoordsOf(SubSeq(shape.lengths, 1, Len(shape.lengths) - 1)) :
        \E c \in Range0(shape.lengths[Len(shape.lengths)]) :
            cells[Shape_position(shape, coordinates \o <<c>>) + 1] = BOOL_TRUE

Satisfies(cells) ==
    /\ \A i \in 1 .. Len(clauses) : ClauseHolds(clauses[i], cells)
    /\ \A k \in 1 .. Len(exists) : ExistHolds(exists[k], cells)

TotalAssignments == [1 .. Buffer2_len(state.assignment) -> {BOOL_FALSE, BOOL_TRUE}]

\* cells agrees with the assignments forced before search_all was called
ExtendsForced(cells) ==
    \A k \in 1 .. call.forced :
        cells[state.steps[k].bvar + 1] = Buffer2_get(state.assignment, state.steps[k].bvar)

\* the recorded assignment sol leaves open or agrees with every cell of cells
Covers(sol, cells) ==
    \A i \in 1 .. Len(cells) : sol[i] = BOOL_UNDEF \/ sol[i] = cells[i]

Searching == call.op = "search_all"

(***************************************************************************)
(* Properties of search_all.                                               *)
(***************************************************************************)
\* C1: when search_all has returned, every total TRUE/FALSE assignment that
\* extends the forced assignments, makes a literal true in every ground
\* instance of every clause and has a TRUE cell in every last-axis fiber of
\* every exists predicate has been recorded as a solution (here even in the
\* weak sense that a recorded assignment covers it).
C1_Complete ==
    (pc = "done") =>
        \A cells \in TotalAssignments :
            (ExtendsForced(cells) /\ Satisfies(cells)) =>
                \E k \in 1 .. Len(solutions) : Covers(solutions[k], cells)

\* C2: every assignment recorded as a solution makes a literal true in
\* every ground instance of every clause (a positive literal on a TRUE cell
\* or a negative literal on a FALSE cell) and has a TRUE cell in every
\* last-axis fiber of every exists predicate.
C2_Sound == \A k \in 1 .. Len(solutions) : Satisfies(solutions[k])

\* a solution was recorded for a theory with a clause and an exists axiom
C2_Witness ==
    /\ solutions # <<>>
    /\ exists # <<>>
    /\ \E i \in 1 .. Len(clauses) : clauses[i].literals # <<>>

\* C3: every assignment recorded as a solution is total: each of its cells
\* is FALSE or TRUE, none is UNDEF.
C3_Total ==
    \A k \in 1 .. Len(solutions) :
        \A i \in 1 .. Len(solutions[k]) : solutions[k][i] \in {BOOL_FALSE, BOOL_TRUE}

\* C4: when search_all has returned after a propagation with status FALSE
\* (a clause or an exists contradiction), next_decision has answered no: no
\* decision is left on the stack of levels.
C4_BacktracksOnFalse ==
    (pc = "done" /\ (val1 = EVAL_FALSE \/ val2 = EVAL_FALSE)) => state.levels = <<>>

\* the decision stack as a number in base 3, most significant digit first:
\* a decision still on its first value TRUE is the digit 1, a decision
\* flipped to FALSE is the digit 2, a level not yet opened is the digit 0
DecisionDigit(st, i) ==
    IF Buffer2_get(st.assignment, At(st.steps, st.levels[i]).bvar) = BOOL_TRUE
    THEN 1 ELSE 2

RECURSIVE DecisionRank(_, _)
DecisionRank(st, i) ==
    IF i > Len(st.levels) THEN 0
    ELSE DecisionDigit(st, i) * 3 ^ (Buffer2_len(st.assignment) - i)
         + DecisionRank(st, i + 1)

\* twice the rank, plus one between a propagation and its dispatch
Measure == 2 * DecisionRank(state, 1) + (IF pc = "dispatch" THEN 1 ELSE 0)

\* a step of the loop leaves the loop or increases the measure
MeasureGrows ==
    (pc \in {"propagate", "dispatch"}) =>
        (pc' \in {"done", "panic"} \/ Measure' > Measure)

\* C5: search_all runs to completion: every step of its loop either leaves
\* the loop or strictly increases a measure of the decision stack that is
\* bounded by the number of ground atoms, so the loop cannot come back to a
\* decision stack it has left and ends after finitely many iterations.
C5_Terminates ==
    /\ [](Measure <= 2 * 3 ^ Buffer2_len(state.assignment))
    /\ [][MeasureGrows]_vars

\* search_all has returned after it backtracked and enumerated more than
\* one solution
C5_Witness == pc = "done" /\ Len(solutions) > 1 /\ clauses # <<>>

\* no assertion fails inside search_all
NoSearchPanic == Searching => pc # "panic"

(***************************************************************************)
(* Properties of the operations that build a theory.                       *)
(***************************************************************************)
\* the cell a set_value call addresses
CallPosition(c) == Shape_position(variables[c.var].shape, c.coordinates)

\* a set_value call on a cell that is not UNDEF fails and changes nothing
SetValueOnAssigned ==
    (/\ pc = "build"
     /\ call'.op = "set_value"
     /\ Buffer2_get(state.assignment, CallPosition(call')) # BOOL_UNDEF)
    => (pc' = "panic" /\ err' = "AlreadyAssigned" /\ state' = state)

\* after a failed set_value its cell holds a value and is on the trail once
SetValueFailed ==
    (pc = "panic" /\ call.op = "set_value") =>
        /\ err = "AlreadyAssigned"
        /\ Buffer2_get(state.assignment, CallPosition(call)) \in {BOOL_FALSE, BOOL_TRUE}
        /\ Cardinality({k \in 1 .. Len(state.steps) :
                            state.steps[k].bvar = CallPosition(call)}) = 1

\* C6: set_value on a cell that is not UNDEF fails with AlreadyAssigned and
\* leaves assignment, trail and levels as they were before the call; after
\* the failure the cell still holds its value and has exactly one step on
\* the trail.
C6_SetValueFails == []SetValueFailed /\ [][SetValueOnAssigned]_vars

\* set_value(FALSE, p, [0]) has failed on a cell that is TRUE
C6_Witness ==
    /\ pc = "panic"
    /\ call.op = "set_value"
    /\ call.sign = FALSE
    /\ call.coordinates = <<0>>
    /\ Buffer2_get(state.assignment, CallPosition(call)) = BOOL_TRUE

\* a literal whose number of axes differs from the arity of its predicate
ArityBad(lits) ==
    \E i \in 1 .. Len(lits) : Len(lits[i].indices) # Len(variables[lits[i].var].domains)

\* two axes of the literals, on the same clause variable index, whose
\* domains are different domain objects
DomainBad(lits) ==
    \E i, j \in 1 .. Len(lits) :
        \E a \in 1 .. Min(Len(lits[i].indices), Len(variables[lits[i].var].domains)) :
            \E b \in 1 .. Min(Len(lits[j].indices), Len(variables[lits[j].var].domains)) :
                /\ lits[i].indices[a] = lits[j].indices[b]
                /\ variables[lits[i].var].domains[a].id
                       # variables[lits[j].var].domains[b].id

AddClauseChecks ==
    (pc = "build" /\ call'.op = "add_clause") =>
        /\ (ArityBad(call'.literals) /\ ~DomainBad(call'.literals))
               => (pc' = "panic" /\ err' = "ArityMismatch")
        /\ (DomainBad(call'.literals) /\ ~ArityBad(call'.literals))
               => (pc' = "panic" /\ err' = "DomainMismatch")
        /\ (ArityBad(call'.literals) \/ DomainBad(call'.literals))
               => (pc' = "panic" /\ err' \in {"ArityMismatch", "DomainMismatch"})
        /\ (pc' = "panic") => (clauses' = clauses)

\* C7: add_clause fails with ArityMismatch when a literal's number of axes
\* differs from its predicate's arity and with DomainMismatch when two axes
\* put different domain objects on the same clause variable index, whatever
\* the sizes of the domains; a failed add_clause adds no clause.
C7_AddClauseFails == [][AddClauseChecks]_vars

\* add_clause has failed on two distinct domains of equal size
C7_Witness ==
    /\ pc = "panic"
    /\ call.op = "add_clause"
    /\ err = "DomainMismatch"
    /\ Len(domains) = 2
    /\ domains[1].size = domains[2].size

\* add_variable appends the block [L, L + s1 * ... * sk) of UNDEF cells
AddVariableExtends ==
    (pc = "build" /\ call'.op = "add_variable") =>
        LET L == Buffer2_len(state.assignment)
            sizes == Tuple([i \in 1 .. Len(call'.domains) |->
                               domains[call'.domains[i]].size])
            shape == variables'[Len(variables')].shape
        IN  /\ Len(variables') = Len(variables) + 1
            /\ SubSeq(variables', 1, Len(variables)) = variables
            /\ shape.lengths = sizes
            /\ Shape_positions(shape) = [start |-> L, end |-> L + Product(sizes)]
            /\ Buffer2_len(state'.assignment) = L + Product(sizes)
            /\ \A pos \in L .. (L + Product(sizes) - 1) :
                   Buffer2_get(state'.assignment, pos) = BOOL_UNDEF
            /\ \A pos \in Range0(L) :
                   Buffer2_get(state'.assignment, pos) = Buffer2_get(state.assignment, pos)
            /\ state'.steps = state.steps
            /\ state'.levels = state.levels

\* the blocks of the predicates are contiguous in creation order and cover
\* exactly [0, |assignment|)
BlocksPartition ==
    /\ \A k \in 1 .. Len(variables) :
           Shape_positions(variables[k].shape).start
               = IF k = 1 THEN 0 ELSE Shape_positions(variables[k - 1].shape).end
    /\ Buffer2_len(state.assignment)
           = IF variables = <<>> THEN 0
             ELSE Shape_positions(variables[Len(variables)].shape).end

\* C8: adding a predicate over domains of sizes s1..sk gives it the block
\* [L, L + s1*...*sk) with L the assignment length before the call, extends
\* the assignment by that many UNDEF cells and leaves every earlier cell
\* unchanged; the blocks are pairwise disjoint, contiguous in creation order
\* and cover exactly [0, |assignment|).
C8_Blocks == []BlocksPartition /\ [][AddVariableExtends]_vars

\* a second predicate was added after a cell of the first one was forced
C8_Witness ==
    /\ pc = "build"
    /\ call.op = "add_variable"
    /\ Len(variables) = 2
    /\ \E pos \in Range0(Shape_positions(variables[2].shape).start) :
           Buffer2_get(state.assignment, pos) # BOOL_UNDEF

\* C9: after set_equality on a fresh binary predicate with no clauses every
\* cell (i, j) is TRUE if i = j and FALSE otherwise, propagation returns
\* the status TRUE and no decision has been made (levels is empty).
C9_Equality ==
    (pc = "build" /\ call.op = "set_equality") =>
        /\ \A i \in Range0(Shape_length(variables[call.var].shape, 0)) :
               \A j \in Range0(Shape_length(variables[call.var].shape, 1)) :
                   Buffer2_get(state.assignment,
                               Shape_position(variables[call.var].shape, <<i, j>>))
                       = IF i = j THEN BOOL_TRUE ELSE BOOL_FALSE
        /\ clauses = <<>>
        /\ Solver_propagate(clauses, state).err = ""
        /\ Solver_propagate(clauses, state).res = EVAL_TRUE
        /\ Solver_propagate(clauses, state).st.levels = <<>>
        /\ state.levels = <<>>

\* set_equality has run on a binary predicate over a domain of size 2
C9_Witness ==
    /\ pc = "build"
    /\ call.op = "set_equality"
    /\ variables[call.var].shape.lengths = <<2, 2>>
    /\ variables[call.var].domains[1] = variables[call.var].domains[2]

(***************************************************************************)
(* The scenario set = {0,1}, p(set), the clause +p(x0), nothing forced.    *)
(***************************************************************************)
ScenarioP ==
    /\ Searching
    /\ call.forced = 0
    /\ Len(domains) = 1 /\ domains[1].size = 2
    /\ Len(variables) = 1 /\ variables[1].domains = <<domains[1]>>
    /\ exists = <<>>
    /\ Len(clauses) = 1
    /\ Len(clauses[1].literals) = 1
    /\ clauses[1].literals[1].sign
    /\ clauses[1].literals[1].axes = <<0>>

Recorded == {solutions[k] : k \in 1 .. Len(solutions)}

\* C10 as stated: in the scenario search_all records the three solutions
\* (p(0), p(1)) = (TRUE, FALSE), (TRUE, TRUE) and (FALSE, TRUE), and never
\* the assignment with both cells FALSE.
C10_ThreeSolutions ==
    ScenarioP =>
        /\ <<BOOL_FALSE, BOOL_FALSE>> \notin Recorded
        /\ (pc = "done") =>
               Recorded = {<<BOOL_TRUE, BOOL_FALSE>>, <<BOOL_TRUE, BOOL_TRUE>>,
                           <<BOOL_FALSE, BOOL_TRUE>>}

\* C10 (amended): in the scenario search_all records exactly one solution,
\* (p(0), p(1)) = (TRUE, TRUE), reached by propagation alone; no assignment
\* with a FALSE cell is ever recorded.
C10_OneSolution ==
    ScenarioP =>
        /\ Recorded \subseteq {<<BOOL_TRUE, BOOL_TRUE>>}
        /\ state.levels = <<>>
        /\ (pc = "done") => (solutions = <<<<BOOL_TRUE, BOOL_TRUE>>>>)

\* search_all has returned in the scenario
C10_Witness == ScenarioP /\ pc = "done"

(***************************************************************************)
(* Properties of propagation.                                              *)
(***************************************************************************)
\* the literal is on an UNDEF cell
LiteralUndef(lit, coordinates, cells) ==
    cells[Literal_position(lit, coordinates) + 1] = BOOL_UNDEF

\* the ground instance is a unit: no literal is true, exactly one literal is
\* on an UNDEF cell and all the others are false
GroundUnit(cla, coordinates, cells) ==
    /\ \A i \in 1 .. Len(cla.literals) : ~LiteralTrue(cla.literals[i], coordinates, cells)
    /\ Cardinality({i \in 1 .. Len(cla.literals) :
                        LiteralUndef(cla.literals[i], coordinates, cells)}) = 1

NoGroundUnit(cells) ==
    \A i \in 1 .. Len(clauses) :
        \A coordinates \in CoordsOf(clauses[i].shape.lengths) :
            ~GroundUnit(clauses[i], coordinates, cells)

SameFixpoint(a, b) ==
    /\ a.err = ""
    /\ b.err = ""
    /\ (a.res = EVAL_FALSE) <=> (b.res = Solver1_BOOL_FALSE)
    /\ (a.res # EVAL_FALSE) =>
           /\ (a.res = EVAL_TRUE) <=> (b.res = Solver1_BOOL_TRUE)
           /\ (a.res = EVAL_UNDEF) <=> (b.res = Solver1_BOOL_UNDEF2)
           /\ Cells(Solver1_state(a.st).assignment) = Cells(b.st.assignment)

SecondSweepAssigns(a, once) ==
    /\ a.res # EVAL_FALSE
    /\ Cells(once.st.assignment) # Cells(Solver1_state(a.st).assignment)

OnTrail(pos) == \E k \in 1 .. Len(state.steps) : state.steps[k].bvar = pos

\* C13 (invariant T1): after any sequence of set_value, set_equality,
\* propagation, make_decision and next_decision calls every position on the
\* trail holds FALSE or TRUE and every position not on the trail holds
\* UNDEF.
C13_TrailT1 ==
    /\ \A k \in 1 .. Len(state.steps) :
           /\ state.steps[k].bvar < Buffer2_len(state.assignment)
           /\ Buffer2_get(state.assignment, state.steps[k].bvar) \in {BOOL_FALSE, BOOL_TRUE}
    /\ \A pos \in Range0(Buffer2_len(state.assignment)) :
           ~OnTrail(pos) => Buffer2_get(state.assignment, pos) = BOOL_UNDEF

\* next_decision has flipped a decision made after a forced assignment and
\* has left a cell UNDEF
C13_Witness ==
    /\ Searching
    /\ call.forced >= 1
    /\ state.levels # <<>>
    /\ Buffer2_get(state.assignment,
                   At(state.steps, state.levels[Len(state.levels)]).bvar) = BOOL_FALSE
    /\ \E pos \in Range0(Buffer2_len(state.assignment)) :
           Buffer2_get(state.assignment, pos) = BOOL_UNDEF

\* C14 (invariant T2): after any sequence of assign, make_decision and
\* next_decision calls levels is strictly increasing, every entry of levels
\* is smaller than the trail length, and the trail step at index levels[i]
\* has the reason Decision; no assertion of next_decision fails.
C14_TrailT2 ==
    /\ \A i \in 1 .. Len(state.levels) - 1 : state.levels[i] < state.levels[i + 1]
    /\ \A i \in 1 .. Len(state.levels) :
           /\ state.levels[i] < Len(state.steps)
           /\ At(state.steps, state.levels[i]).reason = <<"Decision">>
    /\ err # "NextDecision"

\* two decisions are on the stack, the lower one flipped by next_decision,
\* with assigned steps between and after them
C14_Witness ==
    /\ pc = "state1"
    /\ Len(state.levels) = 2
    /\ state.levels[2] > state.levels[1] + 1
    /\ Len(state.steps) > state.levels[2] + 1
    /\ Buffer2_get(state.assignment, At(state.steps, state.levels[1]).bvar)
           = Solver1_BOOL_FALSE

\* the postcondition of make_decision: before and after are States with the
\* cell codes undef and true, ret is what the call returned, decision is the
\* reason of a decision step
MakeDecisionPost(before, after, ret, undef, true, decision) ==
    LET len == Buffer2_len(before.assignment)
        free == {j \in Range0(len) : Buffer2_get(before.assignment, j) = undef}
    IN  IF free # {}
        THEN \E p \in free :
                 /\ \A j \in free : p <= j
                 /\ ret
                 /\ after.levels = Append(before.levels, Len(before.steps))
                 /\ after.steps = Append(before.steps, [bvar |-> p, reason |-> decision])
                 /\ Buffer2_len(after.assignment) = len
                 /\ Buffer2_get(after.assignment, p) = true
                 /\ \A j \in Range0(len) \ {p} :
                        Buffer2_get(after.assignment, j) = Buffer2_get(before.assignment, j)
        ELSE ~ret /\ after = before

\* C15: make_decision takes the lowest-index UNDEF position p, pushes the
\* trail length onto levels, appends a decision step for p, sets p to TRUE,
\* changes no other cell and returns yes; without an UNDEF position it
\* returns no and changes nothing.  Stated of the call of solver.rs and of
\* the function of solver1 on the same state.
C15_MakeDecision ==
    [][(pc = "state" /\ call'.op = "make_decision") =>
           /\ MakeDecisionPost(state, state', call'.ret, BOOL_UNDEF, BOOL_TRUE, <<>>)
           /\ LET Post1(s1, r1) ==
                      MakeDecisionPost(s1, r1.st, r1.ret, Solver1_BOOL_UNDEF1,
                                       Solver1_BOOL_TRUE, <<"Decision">>)
              IN  Post1(Solver1_state(state),
                        Solver1_State_make_decision(Solver1_state(state)))]_vars

\* make_decision has just decided a position that is neither the first nor
\* the last cell while a higher cell is still undefined
C15_Witness ==
    /\ pc = "state"
    /\ call.op = "make_decision"
    /\ call.ret
    /\ state.steps[Len(state.steps)].bvar > 0
    /\ \E j \in Range0(Buffer2_len(state.assignment)) :
           /\ j > state.steps[Len(state.steps)].bvar
           /\ Buffer2_get(state.assignment, j) = BOOL_UNDEF

\* make_decision has returned no on a table without an undefined cell
MakeDecisionNo ==
    /\ pc = "state"
    /\ call.op = "make_decision"
    /\ ~call.ret

\* the postcondition of next_decision: before and after are States with the
\* cell codes false, undef and true, ret is what the call returned
NextDecisionPost(before, after, ret, false, undef, true) ==
    LET len == Buffer2_len(before.assignment)
        Decision(i) == Buffer2_get(before.assignment,
                                   At(before.steps, before.levels[i]).bvar)
        open == {i \in 1 .. Len(before.levels) : Decision(i) = true}
    IN  /\ ret <=> open # {}
        /\ Buffer2_len(after.assignment) = len
        /\ IF open = {}
           THEN /\ after.levels = <<>>
                /\ after.steps = before.steps
                /\ after.assignment = before.assignment
           ELSE \E i \in open :
                    /\ \A j \in open : j <= i
                    /\ \A j \in i + 1 .. Len(before.levels) : Decision(j) = false
                    /\ LET l == before.levels[i]
                       IN  /\ after.levels = SubSeq(before.levels, 1, i)
                           /\ after.steps = SubSeq(before.steps, 1, l + 1)
                           /\ Buffer2_get(after.assignment, At(before.steps, l).bvar) = false
                           /\ \A k \in l + 2 .. Len(before.steps) :
                                  Buffer2_get(after.assignment, before.steps[k].bvar) = undef
                           /\ \A k \in 1 .. l :
                                  Buffer2_get(after.assignment, before.steps[k].bvar)
                                      = Buffer2_get(before.assignment, before.steps[k].bvar)
                           /\ \A pos \in Range0(len) :
                                  (\A k \in 1 .. Len(before.steps) :
                                       before.steps[k].bvar # pos)
                                  => Buffer2_get(after.assignment, pos)
                                         = Buffer2_get(before.assignment, pos)

\* C16: next_decision discards the levels whose decision is already FALSE;
\* at the first level l with a TRUE decision it resets the positions of the
\* steps above l to UNDEF, truncates the trail to l + 1, sets the decision to
\* FALSE, pushes l back and returns yes, the positions of the steps below l
\* unchanged; it returns no exactly when no level has a TRUE decision, and
\* then levels is empty.  No assertion of next_decision fails.  Stated of the
\* call of solver.rs and of the function of solver1 on the same state.
C16_NextDecision ==
    [][(pc = "state" /\ call'.op = "next_decision") =>
           /\ err' # "NextDecision"
           /\ NextDecisionPost(state, state', call'.ret,
                               BOOL_FALSE, BOOL_UNDEF, BOOL_TRUE)
           /\ LET Post1(s1, r1) ==
                      /\ r1.ok
                      /\ NextDecisionPost(s1, r1.st, r1.ret, Solver1_BOOL_FALSE,
                                          Solver1_BOOL_UNDEF1, Solver1_BOOL_TRUE)
              IN  Post1(Solver1_state(state),
                        Solver1_State_next_decision(Solver1_state(state)))]_vars

\* next_decision has discarded a level with a FALSE decision and flipped the
\* decision of a lower level that has steps below it, freeing cells
C16_Witness ==
    /\ pc = "state"
    /\ call.op = "next_decision"
    /\ call.ret
    /\ call.levels > Len(state.levels)
    /\ state.levels[Len(state.levels)] > 0
    /\ Len(state.steps) + 1 < Buffer2_len(state.assignment)

\* next_decision has returned no after discarding levels
NextDecisionNo ==
    /\ pc = "state"
    /\ call.op = "next_decision"
    /\ ~call.ret
    /\ call.levels > 1
    /\ state.levels = <<>>

\* C17: Buffer1 and Buffer2 behave as arrays: after set(pos, val) get(pos)
\* is val and no other cell changed; after append(len, val) the length grew
\* by len, no existing cell changed and the new cells hold val, whatever the
\* previous length was.
C17_BufferArray ==
    [][(pc = "buffer" /\ call'.op \in {"set", "append"}) =>
           LET n == call'.at
               Same(j) ==
                   /\ Buffer1_get(state'.buf1, j) = Buffer1_get(state.buf1, j)
                   /\ Buffer2_get(state'.buf2, j) = Buffer2_get(state.buf2, j)
               Written(j) ==
                   /\ Buffer1_get(state'.buf1, j) = call'.val % 2
                   /\ Buffer2_get(state'.buf2, j) = call'.val
           IN  IF call'.op = "set"
               THEN /\ Buffer1_len(state'.buf1) = n
                    /\ Buffer2_len(state'.buf2) = n
                    /\ Written(call'.pos)
                    /\ \A j \in Range0(n) \ {call'.pos} : Same(j)
               ELSE /\ Buffer1_len(state'.buf1) = n + call'.len
                    /\ Buffer2_len(state'.buf2) = n + call'.len
                    /\ \A j \in Range0(n) : Same(j)
                    /\ \A j \in n .. n + call'.len - 1 : Written(j)]_vars

\* append was called at a length that is no multiple of the cells per word
\* of either buffer, on cells that differ, with a value other than that of
\* cell 0, and the new cells cross a word boundary of both
C17_Witness ==
    /\ pc = "done"
    /\ call.op = "append"
    /\ call.at % WordCells1 # 0
    /\ call.at % WordCells2 # 0
    /\ call.at \div WordCells1 < (call.at + call.len) \div WordCells1
    /\ Buffer2_get(state.buf2, 0) # call.val
    /\ Buffer1_get(state.buf1, 0) # call.val % 2
    /\ Buffer2_get(state.buf2, 1) # Buffer2_get(state.buf2, 0)

\* for pos in start..end { set(pos, val) }, pos < len
RECURSIVE SetRange(_, _, _, _)
SetRange(bufs, pos, end, val) ==
    IF pos >= end \/ pos >= Buffer1_len(bufs.buf1) \/ pos >= Buffer2_len(bufs.buf2)
    THEN bufs
    ELSE SetRange([buf1 |-> Buffer1_set(bufs.buf1, pos, val % 2),
                   buf2 |-> Buffer2_set(bufs.buf2, pos, val)], pos + 1, end, val)

\* C18: fill_range(start..end, val) leaves Buffer1 and Buffer2 in exactly the
\* state, words and padding included, that set(pos, val) for each pos of the
\* range leaves them in, for all start <= end <= len.
C18_FillRange ==
    [][(pc = "buffer" /\ call'.op = "fill_range") =>
           \E start \in {call'.start}, end \in {call'.end}, val \in {call'.val} :
               state' = SetRange(state, start, end, val)]_vars

\* fill_range was called on a range that starts and ends inside words, with
\* whole words of both buffers between, and the cell after the range holds
\* another value
C18_Witness ==
    /\ pc = "done"
    /\ call.op = "fill_range"
    /\ call.start % WordCells2 # 0
    /\ call.end % WordCells2 # 0
    /\ call.end \div WordCells1 > call.start \div WordCells1 + 1
    /\ call.end < call.at
    /\ Buffer2_get(state.buf2, call.end) # call.val
    /\ Buffer1_get(state.buf1, call.end) # call.val % 2

\* C19: Buffer2::apply(op, other, iter) sets self[i] to op(old self[i],
\* other[p_i]) for every i < self.len(), p_i the i-th position iter yields,
\* leaves other as it is, and fails an assertion whenever iter yields fewer
\* or more positions than self.len().
C19_Apply ==
    [][(pc = "shape" /\ call'.op = "apply") =>
           LET n == Buffer2_len(state.self)
               Post(ps) ==
                   /\ state'.other = state.other
                   /\ IF Len(ps) = n
                      THEN /\ pc' = "applied"
                           /\ Buffer2_len(state'.self) = n
                           /\ \A i \in Range0(n) :
                                  Buffer2_get(state'.self, i)
                                      = Op222Of(call'.table, Buffer2_get(state.self, i),
                                                Buffer2_get(state.other, At(ps, i)))
                      ELSE pc' = "panic" /\ err' = "ApplyLength"
           IN  Post(Collect(ShapeView_positions(state.view)))]_vars

\* apply has run over a view with a dummy axis, in an order other than that
\* of the table, and changed a cell of self
C19_Witness ==
    /\ pc = "applied"
    /\ Buffer2_len(state.self) >= 3
    /\ \E i \in 1 .. Len(state.view.strides) : state.view.strides[i] = <<2, 0>>
    /\ \E i \in 1 .. Len(state.view.strides) : state.view.strides[i][2] > 1
    /\ \E i \in Range0(Buffer2_len(state.self)) :
           Buffer2_get(state.self, i) # (1 + 3 * i) % 4

\* apply has failed with fewer positions than cells
ApplyFewer ==
    /\ err = "ApplyLength"
    /\ Len(Collect(ShapeView_positions(state.view))) < Buffer2_len(state.self)

\* apply has failed with more positions than cells
ApplyMore ==
    /\ err = "ApplyLength"
    /\ Len(Collect(ShapeView_positions(state.view))) > Buffer2_len(state.self)

\* the number of times p occurs in the sequence seq
Occurrences(seq, p) == Cardinality({i \in 1 .. Len(seq) : seq[i] = p})

SameMultiset(a, b) ==
    /\ Len(a) = Len(b)
    /\ \A i \in 1 .. Len(a) : Occurrences(a, a[i]) = Occurrences(b, a[i])

\* C20 as stated: simplify preserves the enumeration, for every view (zero
\* strides, summed strides, zero lengths): v.simplify().positions() yields
\* the positions of v.positions() in the same order, and v is not mutated.
\* Stated of ShapeView::simplify and of Shape::simplify of solver3.
C20_SameOrder ==
    [][(pc = "shape" /\ call'.op = "simplify") =>
           /\ state'.view = state.view
           /\ state'.shape3 = state.shape3
           /\ Collect(ShapeView_positions(state'.simple))
                  = Collect(ShapeView_positions(state.view))
           /\ Collect(Solver3_ShapeIter_new(state'.simple3))
                  = Collect(Solver3_ShapeIter_new(state.shape3))]_vars

\* C20, what the code keeps: ShapeView::simplify yields the same positions
\* in the same order; Shape::simplify of solver3, whose iterator runs the first axis
\* fastest, yields the same multiset of positions; neither changes the
\* shape it is called on.
C20_Simplify ==
    [][(pc = "shape" /\ call'.op = "simplify") =>
           /\ state'.view = state.view
           /\ state'.shape3 = state.shape3
           /\ Collect(ShapeView_positions(state'.simple))
                  = Collect(ShapeView_positions(state.view))
           /\ SameMultiset(Collect(Solver3_ShapeIter_new(state'.simple3)),
                           Collect(Solver3_ShapeIter_new(state.shape3)))]_vars

\* simplify has merged axes of a view that has a dummy axis and a summed
\* stride and yields several positions
C20_Witness ==
    /\ pc = "simplified"
    /\ Len(state.simple.strides) < Len(state.view.strides)
    /\ Len(Collect(ShapeView_positions(state.view))) >= 4
    /\ \E i \in 1 .. Len(state.view.strides) :
           state.view.strides[i][1] = 2 /\ state.view.strides[i][2] = 0
    /\ \E i \in 1 .. Len(state.view.strides) : state.view.strides[i][2] = 3

\* simplify of solver3 has changed the order of the positions
Solver3Reordered ==
    /\ pc = "simplified"
    /\ Collect(Solver3_ShapeIter_new(state.simple3))
           # Collect(Solver3_ShapeIter_new(state.shape3))

\* simplify has met an axis of length zero behind the first axis
SimplifyEmpty ==
    /\ pc = "simplified"
    /\ Len(state.view.strides) = 3
    /\ state.view.strides[1][1] = 2
    /\ state.view.strides[3][1] = 0
    /\ state.simple.strides = <<<<0, 0>>>>

\* the k-th coordinate tuple (k from 0) of the box with the given lengths in
\* lexicographic order, the last axis varying fastest
RowMajor(lengths, k) ==
    Tuple([i \in 1 .. Len(lengths) |->
              (k \div Product(SubSeq(lengths, i + 1, Len(lengths)))) % lengths[i]])

\* the k-th coordinate tuple with the first axis varying fastest
ColumnMajor(lengths, k) ==
    Tuple([i \in 1 .. Len(lengths) |->
              (k \div Product(SubSeq(lengths, 1, i - 1))) % lengths[i]])

Lengths(strides) == Tuple([i \in 1 .. Len(strides) |-> strides[i][1]])

\* the positions of the view of shape.rs are volume many, the k-th one the
\* position of the k-th coordinate tuple in row-major order
RowMajorView ==
    (pc = "shape") =>
        LET Yields(ps) ==
                /\ Len(ps) = ShapeView_volume(state.view)
                /\ \A k \in Range0(Len(ps)) :
                       At(ps, k) = ShapeView_position(
                                       state.view,
                                       RowMajor(Lengths(state.view.strides), k))
        IN  Yields(Collect(ShapeView_positions(state.view)))

\* the positions of the shape of solver3 are volume many, the k-th one the
\* position of the k-th coordinate tuple with the first axis fastest
ColumnMajorShape3 ==
    (pc = "shape") =>
        LET Yields(ps) ==
                /\ Len(ps) = Solver3_Shape_volume(state.shape3)
                /\ \A k \in Range0(Len(ps)) :
                       At(ps, k) = Solver3_Shape_position(
                                       state.shape3,
                                       ColumnMajor(Lengths(state.shape3.strides), k))
        IN  Yields(Collect(Solver3_ShapeIter_new(state.shape3)))

\* C21: position iteration is row-major: for every shape or view, canonical
\* or not, positions() yields volume many positions, the k-th one equal to
\* position(c_k) for the k-th coordinate tuple c_k in lexicographic order
\* with the last axis fastest, and none when an axis has length zero.
\* Stated of Shape and ShapeView of shape.rs and of Shape of solver3.
C21_RowMajor ==
    (pc = "shape") =>
        /\ RowMajorView
        /\ \A k \in Range0(Shape_volume(state.shape)) :
               Shape_positions(state.shape).start + k
                   = Shape_position(state.shape, RowMajor(state.shape.lengths, k))
        /\ LET Yields(ps) ==
                   /\ Len(ps) = Solver3_Shape_volume(state.shape3)
                   /\ \A k \in Range0(Len(ps)) :
                          At(ps, k) = Solver3_Shape_position(
                                          state.shape3,
                                          RowMajor(Lengths(state.shape3.strides), k))
           IN  Yields(Collect(Solver3_ShapeIter_new(state.shape3)))


\* the checks of tests::laws on one table, for the values drawn
Idempotent(name) == (call.op = name) => call.aa = state.a

Commutative(name) == (call.op = name) => call.ab = call.ba

Associative(name) == (call.op = name) => call.ab_c = call.a_bc

Solver1Laws ==
    (pc = "laws" /\ {state.a, state.b, state.c} \subseteq 0 .. 2) =>
        /\ Idempotent("Solver1_BOOL_AND")
        /\ Commutative("Solver1_BOOL_AND") /\ Associative("Solver1_BOOL_AND")
        /\ Commutative("Solver1_BOOL_OR") /\ Associative("Solver1_BOOL_OR")
        /\ (call.op = "Solver1_BOOL_OR" /\ state.a = Solver1_BOOL_UNDEF1) =>
               call.aa = Solver1_BOOL_UNDEF2
        /\ (call.op = "distributive" /\ call.op1 = "Solver1_BOOL_OR") =>
               call.left = call.right


\* C23: for all a, b, c of the 2-bit domain 0 .. 3, FOLD_POS(a, b) is
\* FOLD_NEG(a, NOT(b)), and folding b and then c into a with FOLD_POS gives
\* the same as folding c and then b.
C23_Fold ==
    (pc = "laws") =>
        /\ (call.op = "fold") => call.pos = call.neg
        /\ (call.op = "FOLD_POS") => call.ab_c = call.ac_b

\* the two folds have been compared on a value tests::laws does not reach:
\* MISSING folded into UNIT, which stays UNIT
C23_Witness ==
    /\ pc = "laws"
    /\ call.op = "fold"
    /\ state.a = EVAL_UNIT
    /\ state.b = BOOL_MISSING
    /\ call.pos = EVAL_UNIT
    /\ call.neg = EVAL_UNIT

\* C24, as stated: BOOL_OR distributes over BOOL_AND for all a, b, c of
\* FALSE, UNDEF, TRUE and MISSING: BOOL_OR(a, BOOL_AND(b, c)) is
\* BOOL_AND(BOOL_OR(a, b), BOOL_OR(a, c)).
C24_Distributive ==
    (pc = "laws" /\ call.op = "distributive" /\ call.op1 = "BOOL_OR") =>
        call.left = call.right

\* C24, amended: BOOL_OR distributes over BOOL_AND for all a, b, c of FALSE,
\* UNDEF and TRUE.
C24_DistributiveDefined ==
    (/\ pc = "laws" /\ call.op = "distributive" /\ call.op1 = "BOOL_OR"
     /\ {state.a, state.b, state.c} \subseteq {BOOL_FALSE, BOOL_UNDEF, BOOL_TRUE}) =>
        call.left = call.right

\* both sides have been evaluated for UNDEF or (FALSE and TRUE)
C24_Witness ==
    /\ pc = "laws"
    /\ call.op = "distributive"
    /\ call.op1 = "BOOL_OR"
    /\ state = [a |-> BOOL_UNDEF, b |-> BOOL_FALSE, c |-> BOOL_TRUE]
    /\ call.left = BOOL_UNDEF
    /\ call.right = BOOL_UNDEF


\* the coordinates c of the source under a map: c[i] is the coordinate the
\* new tuple has at axis map[i]
Pullback(map, coordinates) == Tuple([i \in 1 .. Len(map) |-> At(coordinates, map[i])])

\* map is a permutation of the axes 0 .. Len(map) - 1
IsPermutation(map) ==
    /\ \A i \in 1 .. Len(map) : map[i] \in Range0(Len(map))
    /\ \A i, j \in 1 .. Len(map) : map[i] = map[j] => i = j

\* view.permute(map) against view, for ShapeView of shape.rs
PermutedView ==
    LET src == state.view
        new == state.permuted
        map == call.map
        lengths == Lengths(state.permuted.strides)
        ps == Collect(ShapeView_positions(state.permuted))
    IN  /\ \A i \in 1 .. Len(map) : At(new.strides, map[i]) = src.strides[i]
        /\ \A k \in Range0(ShapeView_volume(new)) :
               ShapeView_position(new, RowMajor(lengths, k))
                   = ShapeView_position(src, Pullback(map, RowMajor(lengths, k)))
        /\ SameMultiset(ps, Collect(ShapeView_positions(src)))
        /\ Len(ps) = ShapeView_volume(new)
        /\ \A k \in Range0(Len(ps)) :
               At(ps, k) = ShapeView_position(src, Pullback(map, RowMajor(lengths, k)))

\* shape.permute(map) against shape, for Shape of solver3, whose iterator
\* runs the first axis fastest
PermutedShape3 ==
    LET src == state.shape3
        new == state.permuted3
        map == call.map
        lengths == Lengths(state.permuted3.strides)
        ps == Collect(Solver3_ShapeIter_new(state.permuted3))
    IN  /\ \A i \in 1 .. Len(map) : At(new.strides, map[i]) = src.strides[i]
        /\ \A k \in Range0(Solver3_Shape_volume(new)) :
               Solver3_Shape_position(new, ColumnMajor(lengths, k))
                   = Solver3_Shape_position(src, Pullback(map, ColumnMajor(lengths, k)))
        /\ SameMultiset(ps, Collect(Solver3_ShapeIter_new(src)))
        /\ Len(ps) = Solver3_Shape_volume(new)
        /\ \A k \in Range0(Len(ps)) :
               At(ps, k) = Solver3_Shape_position(src, Pullback(map, ColumnMajor(lengths, k)))

\* C25: permute(map), for map a permutation of the axes, returns a fresh
\* view whose axis map[i] has the length and stride of the source's axis i,
\* so that the new position at c' is the source's position at c whenever
\* c'[map[i]] = c[i]; its positions are the source's as a multiset, in the
\* order of the new view's coordinate tuples; the source is not changed.
C25_Permute ==
    /\ []((pc = "permuted" /\ IsPermutation(call.map)) =>
             PermutedView /\ PermutedShape3)
    /\ [][(pc = "shape" /\ pc' = "permuted") =>
              state'.view = state.view /\ state'.shape3 = state.shape3]_vars

\* a view of three axes has been permuted by a map that is not its own
\* inverse, and yields its positions in another order than the source
C25_Witness ==
    /\ pc = "permuted"
    /\ call.map = <<1, 2, 0>>
    /\ ShapeView_volume(state.permuted) >= 4
    /\ Collect(ShapeView_positions(state.permuted))
           # Collect(ShapeView_positions(state.view))
    /\ Collect(Solver3_ShapeIter_new(state.permuted3))
           # Collect(Solver3_ShapeIter_new(state.shape3))


\* the sum of the strides of the axes that map sends to axis j, from axis i on
RECURSIVE StrideSum(_, _, _, _)
StrideSum(strides, map, j, i) ==
    IF i > Len(map) THEN 0
    ELSE (IF map[i] = j THEN strides[i][2] ELSE 0) + StrideSum(strides, map, j, i + 1)

\* polymer(lengths, map) of ShapeView against the canonical view it was
\* called on
PolymerView ==
    LET src == ShapeView_new(state.shape)
        new == state.view
        map == call.map
    IN  /\ Lengths(new.strides) = call.lengths
        /\ \A j \in 1 .. Len(new.strides) :
               new.strides[j][2] = StrideSum(src.strides, map, j - 1, 1)
        /\ \A k \in Range0(ShapeView_volume(new)) :
               ShapeView_position(new, RowMajor(call.lengths, k))
                   = ShapeView_position(src, Pullback(map, RowMajor(call.lengths, k)))
        /\ \A i \in 1 .. Len(map) : src.strides[i][1] = At(call.lengths, map[i])

\* the same of Shape::polymer of solver3
PolymerShape3 ==
    LET src == Solver3_Shape_new(state.shape.lengths, state.shape.offset)
        new == state.shape3
        map == call.map
    IN  /\ Lengths(new.strides) = call.lengths
        /\ \A j \in 1 .. Len(new.strides) :
               new.strides[j][2] = StrideSum(src.strides, map, j - 1, 1)
        /\ \A k \in Range0(Solver3_Shape_volume(new)) :
               Solver3_Shape_position(new, RowMajor(call.lengths, k))
                   = Solver3_Shape_position(src, Pullback(map, RowMajor(call.lengths, k)))

\* C26: polymer(newLengths, map) returns a shape with the lengths newLengths
\* whose position at every coordinate tuple c is the source's position at
\* (c[map[0]], ..., c[map[r-1]]): an axis outside the image of map has stride
\* 0, an axis several source axes are sent to has the sum of their strides;
\* the call goes through only when every source axis has the length of its
\* target axis, and panics otherwise.
C26_Polymer ==
    /\ (pc = "polymer") => PolymerView /\ PolymerShape3
    /\ (pc = "panic" /\ err = "PolymerLength") =>
           \E i \in 1 .. Len(call.map) :
               state.shape.lengths[i] # At(call.lengths, call.map[i])

\* polymer has sent both axes of a 2 x 2 view to the second axis of the new
\* shape, whose stride is the sum 2 + 1, and left the first axis a dummy
C26_Witness ==
    /\ pc = "polymer"
    /\ call.map = <<1, 1>>
    /\ state.view.strides = <<<<2, 0>>, <<2, 3>>>>
    /\ state.shape3.strides = <<<<2, 0>>, <<2, 3>>>>


\* what a freshly created iterator for the view yields
FreshPositions == Collect(ShapeView_positions(state.view))

\* reset leaves the iterator as ShapeIter::new makes it
ResetIsNew ==
    (pc = "iter" /\ call.op = "reset") => state.iter = ShapeIter_new(state.view)

\* C27: the position iterator is resettable: after reset() is called at any
\* point (before the first next, in the middle of an iteration or after
\* the iterator is exhausted) the following calls of next yield exactly the
\* complete sequence of positions a freshly created iterator for the same
\* view yields, starting at the view's offset, and then None.
C27_Reset ==
    (pc = "iter" /\ state.resets # <<>>) =>
        /\ Len(state.yielded) <= Len(FreshPositions)
        /\ state.yielded = SubSeq(FreshPositions, 1, Len(state.yielded))
        /\ state.iter.done <=> (Len(state.yielded) = Len(FreshPositions))
        /\ (state.yielded # <<>>) => state.yielded[1] = state.view.offset

\* the iterator of a polymer view with offset 1 was reset in the middle of
\* an iteration and has since yielded all four positions again
C27_Witness ==
    /\ pc = "iter"
    /\ state.resets = <<"middle">>
    /\ state.iter.done
    /\ state.view.offset = 1
    /\ state.view.strides = <<<<2, 0>>, <<2, 3>>>>
    /\ state.yielded = <<1, 4, 1, 4>>

\* the other two cases: reset was called on an exhausted iterator, or on an
\* untouched one, and four positions have been yielded since
ResetAtEnd ==
    pc = "iter" /\ state.resets = <<"end">> /\ state.iter.done /\ Len(state.yielded) = 4

ResetAtStart ==
    pc = "iter" /\ state.resets = <<"start">> /\ state.iter.done /\ Len(state.yielded) = 4


\* the ground instance of the clause at buffer cell pos: the coordinates of
\* the cell, and for every literal the position it reads, the value there,
\* and whether that makes the literal true, false or undefined
GroundCoordinates(cla, pos) == RowMajor(cla.shape.lengths, pos)

GroundPositions(cla, pos) ==
    Tuple([i \in 1 .. Len(cla.literals) |->
              Literal_position(cla.literals[i], GroundCoordinates(cla, pos))])

LiteralIs(cla, st, pos, i) ==
    LET val == Buffer2_get(st.assignment, GroundPositions(cla, pos)[i])
    IN  IF val = BOOL_UNDEF THEN "undef"
        ELSE IF (val = BOOL_TRUE) = cla.literals[i].sign THEN "true"
        ELSE "false"

LiteralsThatAre(cla, st, pos, what) ==
    {i \in 1 .. Len(cla.literals) : LiteralIs(cla, st, pos, i) = what}

\* C28: after Clause::evaluate(state), for every cell of the clause buffer
\* (every assignment of the clause variables): the cell is TRUE iff at least
\* one literal of that ground instance is true, FALSE iff every literal is
\* false, UNIT iff exactly one literal is UNDEF and all others are false,
\* and UNDEF iff two or more literals are UNDEF and none is true; whatever
\* the buffer held before.
C28_Evaluate ==
    (pc = "evaluated") =>
        /\ Buffer2_len(state.clause.buffer) = Shape_volume(state.clause.shape)
        /\ \A pos \in Range0(Buffer2_len(state.clause.buffer)) :
               LET val == Buffer2_get(state.clause.buffer, pos)
                   count(what) ==
                       Cardinality(LiteralsThatAre(state.clause, state.st, pos, what))
                   n == Len(state.clause.literals)
               IN  /\ (val = EVAL_TRUE) <=> (count("true") >= 1)
                   /\ (val = EVAL_FALSE) <=> (count("false") = n)
                   /\ (val = EVAL_UNIT) <=> (count("undef") = 1 /\ count("false") = n - 1)
                   /\ (val = EVAL_UNDEF) <=> (count("undef") >= 2 /\ count("true") = 0)

\* a clause of two literals over a domain of two elements has been
\* evaluated into a buffer that held other values, and its four cells show
\* the four values
C28_Witness ==
    /\ pc = "evaluated"
    /\ Len(state.clause.literals) = 2
    /\ \A val \in {EVAL_FALSE, EVAL_UNIT, EVAL_UNDEF, EVAL_TRUE} :
           \E pos \in Range0(Buffer2_len(state.clause.buffer)) :
               /\ Buffer2_get(state.clause.buffer, pos) = val
               /\ val # (1 + 3 * pos) % 4


\* the literals folded into EVAL_FALSE one by one with the table of their
\* sign, in the given order, for the ground instance at cell pos
RECURSIVE FoldOnce(_, _, _, _, _, _)
FoldOnce(cla, st, pos, order, i, val) ==
    IF i > Len(order) THEN val
    ELSE FoldOnce(cla, st, pos, order, i + 1,
                  Op222Of(IF cla.literals[order[i]].sign THEN FOLD_POS ELSE FOLD_NEG,
                          val,
                          Buffer2_get(st.assignment, GroundPositions(cla, pos)[order[i]])))

LiteralOrders(n) == {order \in [1 .. n -> 1 .. n] : \A i, j \in 1 .. n : order[i] = order[j] => i = j}

\* C29: the buffer Clause::evaluate produces does not depend on the order
\* of the clause's literals: for every state and every permutation of the
\* literal list the evaluation yields the same buffer, each cell being the
\* fold of every literal exactly once.
C29_Order ==
    (pc = "evaluated") =>
        \A order \in LiteralOrders(Len(state.clause.literals)) :
            LET permuted == [state.clause EXCEPT
                                !.literals = Tuple([i \in 1 .. Len(order) |-> @[order[i]]])]
            IN  /\ Clause_evaluate(permuted, state.st).cla.buffer = state.clause.buffer
                /\ \A pos \in Range0(Buffer2_len(state.clause.buffer)) :
                       Buffer2_get(state.clause.buffer, pos)
                           = FoldOnce(state.clause, state.st, pos, order, 1, EVAL_FALSE)

\* a clause of three literals of both signs and both predicates has been
\* evaluated to UNIT: one literal undefined, the others false
C29_Witness ==
    /\ pc = "evaluated"
    /\ Len(state.clause.literals) = 3
    /\ {state.clause.literals[i].sign : i \in 1 .. 3} = BOOLEAN
    /\ \E i, j \in 1 .. 3 : state.clause.literals[i].variable # state.clause.literals[j].variable
    /\ Buffer2_get(state.clause.buffer, 0) = EVAL_UNIT

\* the steps propagate is to push: the cells are taken in order; a UNIT cell
\* whose ground instance has a literal that is undefined (undef in the
\* assignment the call found, and not assigned by an earlier cell) gives the
\* step that assigns the literal's position, with the positions of the
\* other literals as the reason; with stop, a FALSE cell ends the scan
RECURSIVE UnitSteps(_, _, _, _, _, _, _)
UnitSteps(cla, before, undef, stop, pos, assigned, steps) ==
    IF pos >= Buffer2_len(cla.buffer) THEN steps
    ELSE IF stop /\ Buffer2_get(cla.buffer, pos) = EVAL_FALSE THEN steps
    ELSE LET ground == GroundPositions(cla, pos)
             open == {i \in 1 .. Len(ground) :
                         /\ Buffer2_get(before.assignment, ground[i]) = undef
                         /\ ground[i] \notin assigned}
         IN  IF Buffer2_get(cla.buffer, pos) # EVAL_UNIT \/ open = {}
             THEN UnitSteps(cla, before, undef, stop, pos + 1, assigned, steps)
             ELSE LET i == CHOOSE k \in open : TRUE
                  IN  UnitSteps(cla, before, undef, stop, pos + 1,
                                assigned \cup {ground[i]},
                                Append(steps,
                                       [bvar |-> ground[i],
                                        sign |-> cla.literals[i].sign,
                                        reason |-> SubSeq(ground, 1, i - 1)
                                                     \o SubSeq(ground, i + 1, Len(ground))]))

\* the state after is the state before with exactly these steps made:
\* the cells assigned to the signs, the trail extended by the steps with
\* their reasons, everything else as it was
Propagated(before, after, units, true, Reason(_)) ==
    /\ after.levels = before.levels
    /\ after.steps = before.steps
           \o Tuple([k \in 1 .. Len(units) |->
                        [bvar |-> units[k].bvar, reason |-> Reason(units[k].reason)]])
    /\ Buffer2_len(after.assignment) = Buffer2_len(before.assignment)
    /\ \A p \in Range0(Buffer2_len(before.assignment)) :
           Buffer2_get(after.assignment, p)
               = IF \E k \in 1 .. Len(units) : units[k].bvar = p
                 THEN LET k == CHOOSE k \in 1 .. Len(units) : units[k].bvar = p
                      IN  IF units[k].sign THEN true ELSE BOOL_FALSE
                 ELSE Buffer2_get(before.assignment, p)

PropagatedSolver(stop) ==
    LET Reason(r) == r
    IN  Propagated(state.before, state.st,
                   UnitSteps(state.clause, state.before, BOOL_UNDEF, stop, 0, {}, <<>>),
                   BOOL_TRUE, Reason)

PropagatedSolver1(stop) ==
    LET Reason(r) == <<"Clause", r>>
    IN  Propagated(state.before1, state.st1,
                   UnitSteps(state.clause1, state.before1, Solver1_BOOL_UNDEF1, stop,
                             0, {}, <<>>),
                   Solver1_BOOL_TRUE, Reason)

\* C30, as stated: for each buffer cell equal to UNIT whose ground instance
\* still has an UNDEF literal, Clause::propagate assigns that literal's
\* position to the literal's sign and records as the reason of the new
\* trail step exactly the positions of the other literals of that ground
\* instance; it assigns no position for cells that are not UNIT.  Stated of
\* Clause::propagate of solver.rs and of solver1.
C30_EveryUnit ==
    (pc = "propagated") => PropagatedSolver(FALSE) /\ PropagatedSolver1(FALSE)

\* C30, amended: Clause::propagate of solver.rs does so for every UNIT cell;
\* Clause::propagate of solver1 does so for the UNIT cells in front of the
\* first FALSE cell, where it stops.
C30_Propagate ==
    (pc = "propagated") => PropagatedSolver(FALSE) /\ PropagatedSolver1(TRUE)

\* propagate has assigned a unit literal with the other literal's position
\* as the reason, behind a FALSE cell at which solver1 has stopped
C30_Witness ==
    /\ pc = "propagated"
    /\ Len(state.st.steps) > Len(state.before.steps)
    /\ state.st.steps[Len(state.st.steps)].reason # <<>>
    /\ Len(state.st1.steps) = Len(state.before1.steps)
    /\ Buffer2_get(state.clause.buffer, 0) = EVAL_FALSE

\* the buffer with the cells from pos on set to val
RECURSIVE MaskFrom(_, _, _)
MaskFrom(buf, pos, val) ==
    IF pos >= Buffer2_len(buf) THEN buf
    ELSE MaskFrom(Buffer2_set(buf, pos, val), pos + 1, val)

\* the state Clause::propagate has made when its loop reaches cell pos: what
\* it makes of the clause whose cells from pos on are TRUE, for which it
\* does nothing
StateAtCell(pos) ==
    Clause_propagate([state.clause EXCEPT !.buffer = MaskFrom(@, pos, EVAL_TRUE)],
                     state.before).st

Solver1_StateAtCell(pos) ==
    Solver1_PropagateCells(
        [state.clause1 EXCEPT !.buffer = MaskFrom(@, pos, Solver1_BOOL_TRUE)],
        state.before1, 0, Solver1_BOOL_TRUE).st

\* the literals of the ground instance of cell pos that are undefined in st
UndefLiterals(cla, st, pos, undef) ==
    {i \in 1 .. Len(cla.literals) :
        Buffer2_get(st.assignment, GroundPositions(cla, pos)[i]) = undef}

\* the UNIT cells the loop processes: all of them in solver.rs, those in
\* front of the first FALSE cell in solver1
UnitCells == {pos \in Range0(Buffer2_len(state.clause.buffer)) :
                 Buffer2_get(state.clause.buffer, pos) = EVAL_UNIT}

Solver1_UnitCells ==
    {pos \in Range0(Buffer2_len(state.clause1.buffer)) :
        /\ Buffer2_get(state.clause1.buffer, pos) = Solver1_BOOL_UNDEF1
        /\ \A q \in Range0(pos) : Buffer2_get(state.clause1.buffer, q) # Solver1_BOOL_FALSE}

\* C31, as stated: whenever Clause::propagate processes a buffer cell whose
\* value is UNIT, exactly one literal of that ground instance is UNDEF in
\* the state at that moment, and UnitInvariantBroken never occurs.
C31_ExactlyOne ==
    /\ err # "UnitInvariantBroken"
    /\ (pc = "propagated") =>
           /\ \A pos \in UnitCells :
                  Cardinality(UndefLiterals(state.clause, StateAtCell(pos), pos,
                                            BOOL_UNDEF)) = 1
           /\ \A pos \in Solver1_UnitCells :
                  Cardinality(UndefLiterals(state.clause1, Solver1_StateAtCell(pos), pos,
                                            Solver1_BOOL_UNDEF1)) = 1

\* the UNIT cell had exactly one undefined literal when the clause was
\* evaluated; when the loop reaches the cell that literal is the only one
\* that can be undefined, and it is defined only if an earlier UNIT cell
\* with the same ground atom has been processed
AtMostOne(cla, before, at, pos, cells, undef) ==
    /\ Cardinality(UndefLiterals(cla, before, pos, undef)) = 1
    /\ UndefLiterals(cla, at, pos, undef) \subseteq UndefLiterals(cla, before, pos, undef)
    /\ UndefLiterals(cla, at, pos, undef) = {} =>
           \E q \in cells : \E i \in UndefLiterals(cla, before, pos, undef) :
               /\ q < pos
               /\ \E j \in UndefLiterals(cla, before, q, undef) :
                      GroundPositions(cla, q)[j] = GroundPositions(cla, pos)[i]

\* C31, amended: whenever Clause::propagate processes a UNIT cell, at most
\* one literal of that ground instance is UNDEF at that moment: the one that
\* was undefined at the evaluation, unless an earlier UNIT cell of the same
\* call has assigned its ground atom; UnitInvariantBroken never occurs.
C31_AtMostOne ==
    /\ err # "UnitInvariantBroken"
    /\ (pc = "propagated") =>
           /\ \A pos \in UnitCells :
                  AtMostOne(state.clause, state.before, StateAtCell(pos), pos,
                            UnitCells, BOOL_UNDEF)
           /\ \A pos \in Solver1_UnitCells :
                  AtMostOne(state.clause1, state.before1, Solver1_StateAtCell(pos), pos,
                            Solver1_UnitCells, Solver1_BOOL_UNDEF1)

\* propagate has processed two UNIT cells that share their undefined ground
\* atom: at the second one no literal was undefined any more
C31_Witness ==
    /\ pc = "propagated"
    /\ \E pos \in UnitCells :
           /\ UndefLiterals(state.clause, StateAtCell(pos), pos, BOOL_UNDEF) = {}
           /\ Len(state.clause.literals) = 2
    /\ \E pos \in Solver1_UnitCells :
           UndefLiterals(state.clause1, Solver1_StateAtCell(pos), pos,
                         Solver1_BOOL_UNDEF1) = {}

\* the AND-fold of the cells up to the first cell equal to false, that cell
\* included, or of all the cells if there is none
RECURSIVE InspectedFold(_, _, _, _, _)
InspectedFold(buf, and, false, pos, res) ==
    IF pos >= Buffer2_len(buf) THEN res
    ELSE IF Buffer2_get(buf, pos) = false THEN Op222Of(and, res, false)
    ELSE InspectedFold(buf, and, false, pos + 1, Op222Of(and, res, Buffer2_get(buf, pos)))

HasFalseCell(buf, false) ==
    \E pos \in Range0(Buffer2_len(buf)) : Buffer2_get(buf, pos) = false

\* Clause::propagate of solver.rs has stopped at the first FALSE cell
StopsAtFalse ==
    (pc = "propagated" /\ HasFalseCell(state.clause.buffer, EVAL_FALSE)) =>
        /\ call.res = EVAL_FALSE
        /\ call.res = InspectedFold(state.clause.buffer, EVAL_AND, EVAL_FALSE, 0, EVAL_TRUE)
        /\ PropagatedSolver(TRUE)

\* Clause::propagate of solver1 has stopped at the first FALSE cell
Solver1_StopsAtFalse ==
    (pc = "propagated" /\ HasFalseCell(state.clause1.buffer, Solver1_BOOL_FALSE)) =>
        /\ call.res1 = Solver1_BOOL_FALSE
        /\ call.res1 = InspectedFold(state.clause1.buffer, Solver1_BOOL_AND,
                                     Solver1_BOOL_FALSE, 0, Solver1_BOOL_TRUE)
        /\ PropagatedSolver1(TRUE)

\* C32: when Clause::propagate meets a buffer cell equal to FALSE it stops
\* and returns FALSE: no cell with a higher buffer index is inspected and no
\* assignment is made for UNIT cells that come after the FALSE cell; the
\* value returned is the AND-fold of the cells inspected.  Stated of
\* Clause::propagate of solver.rs and of solver1.
C32_StopsAtFalse == StopsAtFalse /\ Solver1_StopsAtFalse

\* what Clause::propagate of solver.rs does instead: it returns FALSE, the
\* AND-fold of all the cells, and assigns for the UNIT cells behind the
\* FALSE cell as well
GoesOnAfterFalse ==
    (pc = "propagated" /\ HasFalseCell(state.clause.buffer, EVAL_FALSE)) =>
        /\ call.res = EVAL_FALSE
        /\ PropagatedSolver(FALSE)

\* the UNIT cells at which no literal is undefined any more when the loop
\* reaches them
AssignedCells ==
    {pos \in UnitCells :
        UndefLiterals(state.clause, StateAtCell(pos), pos, BOOL_UNDEF) = {}}

Solver1_AssignedCells ==
    {pos \in Solver1_UnitCells :
        UndefLiterals(state.clause1, Solver1_StateAtCell(pos), pos, Solver1_BOOL_UNDEF1) = {}}

\* C33: during propagation, a UNIT cell whose only undefined literal has
\* meanwhile been assigned by another unit of the same pass is a no-op on
\* the state: assignment, trail and levels are the same behind the cell as
\* in front of it, and neither AlreadyAssigned nor an assertion fails.
C33_NoOp ==
    /\ pc = "panic" => err = "ApplyLength"
    /\ (pc = "propagated") =>
           /\ \A pos \in AssignedCells : StateAtCell(pos + 1) = StateAtCell(pos)
           /\ \A pos \in Solver1_AssignedCells :
                  Solver1_StateAtCell(pos + 1) = Solver1_StateAtCell(pos)

\* propagate has passed a UNIT cell whose ground atom an earlier cell had
\* assigned, in a clause with a negative literal, and has assigned for a
\* later cell again
C33_Witness ==
    /\ pc = "propagated"
    /\ \E pos \in AssignedCells :
           /\ StateAtCell(pos) # state.before
           /\ StateAtCell(pos + 1) # state.st
    /\ Solver1_AssignedCells # {}
    /\ \E i \in 1 .. Len(state.clause.literals) : ~state.clause.literals[i].sign

\* the cells of the fibers of a shape along its last axis
Fibers(shape) ==
    LET block == Shape_length(shape, Shape_dimension(shape) - 1)
    IN  {{shape.offset + k * block + i : i \in Range0(block)} :
            k \in Range0(shape.volume \div block)}

CellsThatAre(st, fiber, val) == {i \in fiber : Buffer2_get(st.assignment, i) = val}

\* the status of a fiber with three values: FALSE if it has no TRUE and no
\* UNDEF cell, UNDEF if it has some UNDEF cell and no TRUE cell, TRUE if it
\* has a TRUE cell
FiberStatus3(st, fiber, undef, true) ==
    IF CellsThatAre(st, fiber, true) # {} THEN EVAL_TRUE
    ELSE IF CellsThatAre(st, fiber, undef) # {} THEN EVAL_UNDEF
    ELSE EVAL_FALSE

\* the status of a fiber with four values: an only UNDEF cell makes it UNIT
FiberStatus4(st, fiber, undef, true) ==
    IF CellsThatAre(st, fiber, true) # {} THEN EVAL_TRUE
    ELSE IF Cardinality(CellsThatAre(st, fiber, undef)) >= 2 THEN EVAL_UNDEF
    ELSE IF Cardinality(CellsThatAre(st, fiber, undef)) = 1 THEN EVAL_UNIT
    ELSE EVAL_FALSE

\* the least of the statuses (FALSE < UNIT < UNDEF < TRUE), TRUE for none
LeastStatus(statuses) ==
    IF statuses = {} THEN EVAL_TRUE
    ELSE CHOOSE s \in statuses : \A t \in statuses : s <= t

\* C34, as stated: the status of an exists axiom is computed per last-axis
\* fiber as FALSE, UNDEF or TRUE, and the axiom's status is the minimum of
\* its fibers' statuses, so it is always one of FALSE, UNDEF, TRUE.
C34_ThreeValued ==
    (pc = "status") =>
        /\ call.res = LeastStatus({FiberStatus3(state.st, f, BOOL_UNDEF, BOOL_TRUE) :
                                      f \in Fibers(exists[call.exist])})
        /\ call.res \in {EVAL_FALSE, EVAL_UNDEF, EVAL_TRUE}
        /\ call.res1 = LeastStatus({FiberStatus3(state.st1, f, Solver1_BOOL_UNDEF1,
                                                 Solver1_BOOL_TRUE) :
                                       f \in Fibers(exists[call.exist])})

\* C34, amended: the status of a fiber is FALSE if it has no TRUE and no
\* UNDEF cell, UNIT if it has exactly one UNDEF cell and no TRUE cell, UNDEF
\* if it has two or more UNDEF cells and no TRUE cell, TRUE if it has a TRUE
\* cell; the axiom's status is the minimum of its fibers' statuses, one of
\* the four values.  (solver1 has the same four codes under the names
\* FALSE, UNDEF1, UNDEF2, TRUE.)
C34_Status ==
    (pc = "status") =>
        /\ call.res = LeastStatus({FiberStatus4(state.st, f, BOOL_UNDEF, BOOL_TRUE) :
                                      f \in Fibers(exists[call.exist])})
        /\ call.res1 = LeastStatus({FiberStatus4(state.st1, f, Solver1_BOOL_UNDEF1,
                                                 Solver1_BOOL_TRUE) :
                                       f \in Fibers(exists[call.exist])})

\* get_status has returned UNIT for an axiom with two fibers, one with a
\* TRUE cell and one with a single UNDEF cell
C34_Witness ==
    /\ pc = "status"
    /\ call.res = EVAL_UNIT
    /\ call.res1 = Solver1_BOOL_UNDEF1
    /\ Cardinality(Fibers(exists[call.exist])) = 2
    /\ \E f \in Fibers(exists[call.exist]) : CellsThatAre(state.st, f, BOOL_TRUE) # {}
    /\ exists[call.exist].offset > 0

\* the positions exists propagation is to assign for one axiom, fiber by
\* fiber from fiber k on: the only UNDEF cell of a fiber without a TRUE
\* cell; with stop, a fiber whose cells are all FALSE ends the scan
RECURSIVE ExistUnits(_, _, _, _, _)
ExistUnits(shape, before, stop, k, units) ==
    LET block == Shape_length(shape, Shape_dimension(shape) - 1)
        fiber == {shape.offset + k * block + i : i \in Range0(block)}
        undef == CellsThatAre(before, fiber, Solver1_BOOL_UNDEF1)
    IN  IF k * block >= shape.volume THEN units
        ELSE IF stop /\ CellsThatAre(before, fiber, Solver1_BOOL_FALSE) = fiber THEN units
        ELSE IF Cardinality(undef) = 1
                /\ CellsThatAre(before, fiber, Solver1_BOOL_TRUE) = {}
             THEN ExistUnits(shape, before, stop, k + 1,
                             Append(units, CHOOSE i \in undef : TRUE))
             ELSE ExistUnits(shape, before, stop, k + 1, units)

\* the same for the axioms from axiom i on, in their order
RECURSIVE ExistsUnits(_, _, _, _)
ExistsUnits(exts, before, stop, i) ==
    IF i > Len(exts) THEN <<>>
    ELSE ExistUnits(exts[i], before, stop, 0, <<>>) \o ExistsUnits(exts, before, stop, i + 1)

\* the state after is the state before with exactly these positions
\* assigned TRUE, each by a new trail step with the reason Exists
ExistsPropagated(before, after, units) ==
    /\ after.levels = before.levels
    /\ after.steps = before.steps
           \o Tuple([k \in 1 .. Len(units) |-> [bvar |-> units[k], reason |-> <<"Exists">>]])
    /\ Buffer2_len(after.assignment) = Buffer2_len(before.assignment)
    /\ \A p \in Range0(Buffer2_len(before.assignment)) :
           Buffer2_get(after.assignment, p)
               = IF \E k \in 1 .. Len(units) : units[k] = p
                 THEN Solver1_BOOL_TRUE
                 ELSE Buffer2_get(before.assignment, p)

\* C35, as stated: for every fiber of an exists predicate that has exactly
\* one UNDEF cell and no TRUE cell, the single UNDEF position is assigned
\* TRUE with reason Exists; in a fiber that contains a TRUE cell or two or
\* more UNDEF cells no position is assigned.
C35_EveryFiber ==
    (pc = "propagated") =>
        ExistsPropagated(state.before1, state.st1,
                         ExistsUnits(exists, state.before1, FALSE, 1))

\* C35, amended: Exist::propagate does so for the fibers of its predicate in
\* front of the first fiber whose cells are all FALSE, where it stops;
\* propagate_exists goes on with the next axiom.
C35_Propagate ==
    (pc = "propagated") =>
        ExistsPropagated(state.before1, state.st1,
                         ExistsUnits(exists, state.before1, TRUE, 1))

\* propagate_exists has assigned the only UNDEF cell of a fiber of each of
\* two axioms, and has left a fiber with two UNDEF cells or a TRUE cell as
\* it was
C35_Witness ==
    /\ pc = "propagated"
    /\ Len(exists) = 2
    /\ \A k \in 1 .. 2 :
           \E i \in 1 .. Len(state.st1.steps) :
               /\ i > Len(state.before1.steps)
               /\ state.st1.steps[i].reason = <<"Exists">>
               /\ state.st1.steps[i].bvar >= exists[k].offset
               /\ state.st1.steps[i].bvar < exists[k].offset + exists[k].volume
    /\ \E k \in 1 .. 2 : \E f \in Fibers(exists[k]) :
           /\ CellsThatAre(state.before1, f, Solver1_BOOL_UNDEF1) # {}
           /\ CellsThatAre(state.st1, f, Solver1_BOOL_UNDEF1)
                  = CellsThatAre(state.before1, f, Solver1_BOOL_UNDEF1)

\* the number of cells that are not assigned
UndefCount(st, undef) ==
    Cardinality({p \in Range0(Buffer2_len(st.assignment)) :
                    Buffer2_get(st.assignment, p) = undef})

\* the variant of the loop of Solver::propagate: the cells still to assign,
\* then the quiet visits still to make
VisitMeasure ==
    UndefCount(state.st, BOOL_UNDEF) * (Len(clauses) + 1) + (Len(clauses) - state.num)

\* a clause visit that reports a unit assigns, a quiet visit assigns nothing
\* and is counted, every visit that stays in the loop decreases the variant,
\* and the loop is left with a clause returning FALSE or after as many
\* quiet visits in a row as there are clauses
VisitProgress ==
    (pc = "visit") =>
        /\ call'.val = EVAL_UNIT => call'.assigned >= 1
        /\ call'.val \in {EVAL_UNDEF, EVAL_TRUE} =>
               state'.st = state.st /\ state'.num = state.num + 1
        /\ pc' = "visit" => VisitMeasure' < VisitMeasure
        /\ pc' = "sweep" => (call'.val = EVAL_FALSE \/ state'.num = Len(clauses))

\* the variant of the inner loop of solver1's search_all
SweepMeasure == UndefCount(state.st1, Solver1_BOOL_UNDEF1)

\* a sweep that reports a unit assigns, every sweep that stays in the loop
\* decreases the variant, and the loop is left with the value FALSE or after
\* a sweep that has assigned nothing
SweepProgress ==
    (pc = "sweep") =>
        /\ call'.value = Solver1_BOOL_UNDEF1 => call'.assigned >= 1
        /\ pc' = "sweep" => SweepMeasure' < SweepMeasure
        /\ pc' = "fixpoint" => (call'.value = Solver1_BOOL_FALSE \/ call'.assigned = 0)

\* C36: propagation to the fixpoint always terminates: every clause visit
\* (or sweep) that reports a unit makes at least one new assignment, so
\* every pass of the loop that does not leave it decreases a variant that
\* is a natural number, and the loop ends after finitely many clause visits,
\* either with a full sweep that makes no new assignment or with a clause
\* returning FALSE.
C36_Terminates == [][VisitProgress /\ SweepProgress]_vars

\* the loop of Solver::propagate has ended after two clauses have each
\* propagated with a reason and two quiet visits have followed
C36_Witness ==
    /\ pc = "sweep"
    /\ call.op = "visit"
    /\ Len(clauses) = 2
    /\ state.num = 2
    /\ Cardinality({k \in 1 .. Len(state.st.steps) : state.st.steps[k].reason # <<>>}) >= 2

\* the inner loop of solver1 has ended after sweeps that have propagated a
\* clause and an exists axiom
SweepsEnded ==
    /\ pc = "fixpoint"
    /\ \E k \in 1 .. Len(state.st1.steps) : state.st1.steps[k].reason = <<"Exists">>
    /\ \E k \in 1 .. Len(state.st1.steps) : state.st1.steps[k].reason[1] = "Clause"
    /\ state.value = Solver1_BOOL_TRUE

\* no assertion fails in either loop
NoFixpointPanic == pc # "panic"

\* the run of solver1 has begun
Solver1Runs == pc \in {"propagate1", "dispatch1", "done1"}

\* the codes of the cell values in the solver that is running
RunTrue == IF Solver1Runs THEN Solver1_BOOL_TRUE ELSE BOOL_TRUE
RunFalse == IF Solver1Runs THEN Solver1_BOOL_FALSE ELSE BOOL_FALSE
RunUndef == IF Solver1Runs THEN Solver1_BOOL_UNDEF1 ELSE BOOL_UNDEF

\* two recorded assignments conflict: one holds TRUE where the other holds
\* FALSE
Conflict(a, b) ==
    \E i \in 1 .. Len(a) : {a[i], b[i]} = {RunTrue, RunFalse}

\* C37: search_all never reports the same model twice: any two solutions
\* recorded during one run conflict on at least one position.
C37_Distinct ==
    \A j, k \in 1 .. Len(solutions) : j < k => Conflict(solutions[j], solutions[k])

\* both runs have recorded at least three solutions for a theory with a
\* clause
C37_Witness ==
    /\ pc = "done1"
    /\ Len(solutions) >= 3
    /\ clauses # <<>>

\* the positions that the precomputed iterator of a literal yields, from its
\* reset on
IteratorPositions(lit) == Collect(ShapeIter_reset(lit.positions))

\* the iterator of every literal of the clause yields one position for each
\* buffer index, that of the coordinates of the index
PositionsAgree(cla) ==
    \A l \in 1 .. Len(cla.literals) :
        /\ Len(IteratorPositions(cla.literals[l])) = Shape_volume(cla.shape)
        /\ \A i \in 0 .. Shape_volume(cla.shape) - 1 :
               At(IteratorPositions(cla.literals[l]), i)
                   = Literal_position(cla.literals[l], Shape_coordinates(cla.shape, i))

\* C38: for every literal of a clause and every buffer index i below the
\* clause volume, the i-th position of the literal's precomputed iterator
\* equals Literal::position of the coordinates that Shape::coordinates decodes
\* from i, in solver.rs and in solver1, before and after the clause is
\* evaluated and propagated.
C38_IteratorPositions ==
    pc # "panic" => PositionsAgree(state.clause) /\ PositionsAgree(state.clause1)

\* an evaluated clause of two variables with a literal that reads them in the
\* other order and a literal that reads one of them
C38_Witness ==
    /\ pc = "evaluated"
    /\ Shape_volume(state.clause.shape) = 4
    /\ \E l \in 1 .. Len(state.clause.literals) : state.clause.literals[l].axes = <<1, 0>>
    /\ \E l \in 1 .. Len(state.clause.literals) : state.clause.literals[l].axes = <<1>>
    /\ PositionsAgree(state.clause)

\* the positions of the clause reason list of a trail step: in solver.rs
\* every reason is a list, in solver1 it is that of Reason::Clause
ReasonList(step) ==
    IF ~Solver1Runs THEN step.reason
    ELSE IF step.reason[1] = "Clause" THEN step.reason[2] ELSE <<>>

\* the steps that were pushed by Clause::propagate with a reason that is not
\* empty
ClauseSteps == {k \in 1 .. Len(state.steps) : ReasonList(state.steps[k]) # <<>>}

\* each position of the reason list of step k is assigned, stands on the
\* trail before the step, and is not the position of the step
ReasonJustified(k) ==
    \A j \in 1 .. Len(ReasonList(state.steps[k])) :
        LET pos == ReasonList(state.steps[k])[j]
        IN  /\ Buffer2_get(state.assignment, pos) \in {RunFalse, RunTrue}
            /\ \E e \in 1 .. k - 1 : state.steps[e].bvar = pos
            /\ pos # state.steps[k].bvar

\* C39: in every reachable state, also after backtracking, for every trail
\* step whose reason is a clause reason list, each position in that list
\* holds FALSE or TRUE and occurs on the trail at a smaller index than the
\* step itself, and the list does not contain the step's own position.
C39_Reasons ==
    pc # "panic" => \A k \in 1 .. Len(state.steps) : ReasonJustified(k)

\* solver1 has backtracked (the last decision holds FALSE) and a step behind
\* that decision has a clause reason
C39_Witness ==
    /\ pc = "dispatch1"
    /\ state.levels # <<>>
    /\ Buffer2_get(state.assignment,
                   At(state.steps, state.levels[Len(state.levels)]).bvar) = Solver1_BOOL_FALSE
    /\ \E k \in ClauseSteps : k > state.levels[Len(state.levels)] + 1
    /\ \A k \in ClauseSteps : ReasonJustified(k)

\* search_all is about to call make_decision: the status it computed is
\* neither FALSE nor TRUE
DecisionDue ==
    \/ /\ pc = "dispatch"
       /\ val1 # EVAL_FALSE
       /\ val2 # EVAL_FALSE
       /\ ~(val1 = EVAL_TRUE /\ val2 = EVAL_TRUE)
    \/ /\ pc = "dispatch1"
       /\ val1 \notin {Solver1_BOOL_FALSE, Solver1_BOOL_TRUE}

\* the positions that are still undefined
UndefPositions ==
    {i \in Range0(Buffer2_len(state.assignment)) :
        Buffer2_get(state.assignment, i) = RunUndef}

\* C40: in search_all, make_decision is called only in states where at least
\* one position is UNDEF, so it returns yes and the assertion on its return
\* value never fails, in solver.rs and in solver1.
C40_DecisionPossible ==
    /\ DecisionDue => UndefPositions # {}
    /\ ~(pc = "panic" /\ err \in {"MakeDecision", "Undef2"})

\* solver1 is about to decide the one position that is left, with decisions
\* and an exists axiom behind it
C40_Witness ==
    /\ DecisionDue
    /\ pc = "dispatch1"
    /\ Cardinality(UndefPositions) = 1
    /\ state.levels # <<>>
    /\ exists # <<>>
    /\ clauses # <<>>

=============================================================================
